---- MODULE Spec2Model ----
(***************************************************************************)
(* A model of the Monkey interpreter: the Pratt parser, the tree-walking   *)
(* evaluator, the single-pass bytecode compiler and the stack VM.          *)
(*                                                                         *)
(* The recursive Go functions of the parser, the evaluator and the         *)
(* compiler are run as machines with an explicit stack of frames; one      *)
(* operator per Go function gives the step of its frame.  The VM dispatch  *)
(* loop is a step-by-step state machine.                                   *)
(***************************************************************************)
EXTENDS Integers, Sequences, FiniteSets, TLC

VARIABLES
    phase,      \* position of the driver that is running: "input" | "parsed" | ...
    input,      \* the token stream handed to parser.New (without the EOF sentinel)
    parsed,     \* result of ParseProgram: [program, errors, hang]
    evalOut,    \* result of Eval on the program: [result, st]
    bytecode,   \* result of Compile and Bytecode: [err, done, Instructions, Constants]
    vm          \* the virtual machine: stack, sp, globals, frames, status

vars == <<phase, input, parsed, evalOut, bytecode, vm>>

(***************************************************************************)
(* Tokens                                                                  *)
(***************************************************************************)
Tok(t, l) == [Type |-> t, Literal |-> l]

EOFTok == Tok("EOF", "")

\* token.LookupIdent / lexer.NextToken for one lexeme of the bounded alphabet
Keywords == {"fn", "let", "true", "false", "if", "else", "return"}

KeywordType(w) ==
    CASE w = "fn" -> "FUNCTION"
      [] w = "let" -> "LET"
      [] w = "true" -> "TRUE"
      [] w = "false" -> "FALSE"
      [] w = "if" -> "IF"
      [] w = "else" -> "ELSE"
      [] w = "return" -> "RETURN"

Symbols == {"=", "+", "-", "!", "*", "/", "<", ">", "==", "!=", ",", ";",
            "(", ")", "{", "}", "[", "]"}

\* the decimal literals the model's inputs use, with strconv.ParseInt's value
IntLiterals == {"0", "1", "2", "3", "4", "5", "6", "7", "8", "9", "10"}

ParseInt(l) ==
    CASE l = "0" -> 0 [] l = "1" -> 1 [] l = "2" -> 2 [] l = "3" -> 3
      [] l = "4" -> 4 [] l = "5" -> 5 [] l = "6" -> 6 [] l = "7" -> 7
      [] l = "8" -> 8 [] l = "9" -> 9 [] l = "10" -> 10

LookupIdent(w) == IF w \in Keywords THEN KeywordType(w) ELSE "IDENT"

\* the string literals the model's inputs use, with the characters readString
\* returns for them (those between the quotes)
StringLiterals == {"\"a\"", "\"b\"", "\"\""}

readString(w) ==
    CASE w = "\"a\"" -> "a"
      [] w = "\"b\"" -> "b"
      [] w = "\"\"" -> ""

\* the token the lexer emits for one lexeme
Lex(w) ==
    IF w \in Symbols THEN Tok(w, w)
    ELSE IF w \in IntLiterals THEN Tok("INT", w)
    ELSE IF w \in StringLiterals THEN Tok("STRING", readString(w))
    ELSE Tok(LookupIdent(w), w)

\* the token stream of a sequence of lexemes
LexAll(ws) == [i \in 1..Len(ws) |-> Lex(ws[i])]

(***************************************************************************)
(* AST and its canonical textual form (ast.String)                         *)
(***************************************************************************)
NilNode == [type |-> "nil"]

RECURSIVE Join(_, _)
Join(strs, sep) ==
    IF Len(strs) = 0 THEN ""
    ELSE IF Len(strs) = 1 THEN strs[1]
    ELSE strs[1] \o sep \o Join(Tail(strs), sep)

RECURSIVE String(_)
RECURSIVE StringAll(_)
\* concatenation of the String() of every statement (Program.String, BlockStatement.String)
StringAll(stmts) ==
    IF Len(stmts) = 0 THEN "" ELSE String(stmts[1]) \o StringAll(Tail(stmts))

\* String() of a node; "PANIC" marks a nil-pointer dereference in the Go method
String(n) ==
    CASE n.type = "Program" -> StringAll(n.Statements)
      [] n.type = "BlockStatement" -> StringAll(n.Statements)
      [] n.type = "Identifier" -> n.Value
      [] n.type = "IntegerLiteral" -> n.Literal
      [] n.type = "Boolean" -> n.Literal
      [] n.type = "StringLiteral" -> n.Literal
      [] n.type = "LetStatement" ->
            "let " \o n.Name \o " = "
            \o (IF n.Value = NilNode THEN "" ELSE String(n.Value)) \o ";"
      [] n.type = "ReturnStatement" ->
            "return "
            \o (IF n.ReturnValue = NilNode THEN "" ELSE String(n.ReturnValue)) \o ";"
      [] n.type = "ExpressionStatement" ->
            IF n.Expression = NilNode THEN "" ELSE String(n.Expression)
      [] n.type = "PrefixExpression" ->
            "(" \o n.Operator \o String(n.Right) \o ")"
      [] n.type = "InfixExpression" ->
            "(" \o String(n.Left) \o " " \o n.Operator \o " " \o String(n.Right) \o ")"
      [] n.type = "IfExpression" ->
            "if" \o String(n.Condition) \o " " \o String(n.Consequence)
            \o (IF n.Alternative = NilNode THEN ""
                ELSE " else " \o String(n.Alternative))
      [] n.type = "FunctionLiteral" ->
            "fn(" \o Join(n.Parameters, ", ") \o ") " \o String(n.Body)
      [] n.type = "CallExpression" ->
            String(n.Function) \o "("
            \o Join([i \in 1..Len(n.Arguments) |-> String(n.Arguments[i])], ", ")
            \o ")"
      [] n.type = "ArrayLiteral" ->
            "[" \o Join([i \in 1..Len(n.Elements) |-> String(n.Elements[i])], ", ")
            \o "]"
      [] n.type = "IndexExpression" ->
            "(" \o String(n.Left) \o "[" \o String(n.Index) \o "])"
      [] n.type = "nil" -> "PANIC"

(***************************************************************************)
(* Parser                                                                  *)
(***************************************************************************)
lowest == 1
equals == 2
lessGreater == 3
sum == 4
product == 5
prefix == 6
call == 7
index == 8

\* the precedences table; a token kind that is not in it has no entry
HasPrecedence(t) == t \in {"==", "!=", "<", ">", "+", "-", "/", "*", "(", "["}

\* mutant: "*" and "/" entered at the level of "+"
precedences_ProductAsSum(t) ==
    CASE t \in {"==", "!="} -> equals
      [] t \in {"<", ">"} -> lessGreater
      [] t \in {"+", "-", "/", "*"} -> sum
      [] t = "(" -> call
      [] t = "[" -> index

precedences(t) ==
    CASE t \in {"==", "!="} -> equals
      [] t \in {"<", ">"} -> lessGreater
      [] t \in {"+", "-"} -> sum
      [] t \in {"/", "*"} -> product
      [] t = "(" -> call
      [] t = "[" -> index

\* parser state: the token stream, the index of curToken (peekToken is the
\* next one), the error list, and whether a loop of the parser ran forever
TokAt(ps, i) == IF i <= Len(ps.toks) THEN ps.toks[i] ELSE EOFTok

curToken(ps) == TokAt(ps, ps.pos)

peekToken(ps) == TokAt(ps, ps.pos + 1)

\* a parse may take 4^ParserFuel steps
ParserFuel == 5

\* New: two nextToken calls load curToken and peekToken; the stack holds the
\* call of ParseProgram that follows
New(toks) ==
    [toks |-> toks, pos |-> 1, errors |-> <<>>, hang |-> FALSE,
     stack |-> <<[fn |-> "ParseProgram", pc |-> 0, precedence |-> 1,
                  node |-> NilNode, list |-> <<>>, end |-> ""]>>,
     ret |-> NilNode]

nextToken(ps) == [ps EXCEPT !.pos = ps.pos + 1]

curTokenIs(ps, t) == curToken(ps).Type = t

peekTokenIs(ps, t) == peekToken(ps).Type = t

peekError(ps, t) ==
    [ps EXCEPT !.errors = Append(ps.errors,
        "expected next token to be " \o t \o ", got " \o peekToken(ps).Type \o " instead")]

\* expectPeek returns [ok, ps]
expectPeek(ps, t) ==
    IF peekTokenIs(ps, t) THEN [ok |-> TRUE, ps |-> nextToken(ps)]
    ELSE [ok |-> FALSE, ps |-> peekError(ps, t)]

noPrefixParseFnError(ps, t) ==
    [ps EXCEPT !.errors = Append(ps.errors,
        "no prefix parse function for " \o t \o " found")]

peekPrecedence(ps) ==
    IF HasPrecedence(peekToken(ps).Type) THEN precedences(peekToken(ps).Type) ELSE lowest

curPrecedence(ps) ==
    IF HasPrecedence(curToken(ps).Type) THEN precedences(curToken(ps).Type) ELSE lowest

\* token kinds registered in prefixParseFns / infixParseFns
HasPrefixFn(t) ==
    t \in {"IDENT", "INT", "!", "-", "TRUE", "FALSE", "(", "IF", "FUNCTION", "STRING", "["}

HasInfixFn(t) == t \in {"+", "-", "/", "*", "==", "!=", "<", ">", "(", "["}

\* index of the first SEMICOLON at or after position i, 0 when there is none
RECURSIVE NextSemicolon(_, _)
NextSemicolon(ps, i) ==
    IF i > Len(ps.toks) THEN 0
    ELSE IF ps.toks[i].Type = ";" THEN i
    ELSE NextSemicolon(ps, i + 1)

\* for !p.curTokenIs(token.SEMICOLON) { p.nextToken() }: stops on the next
\* SEMICOLON; without one the loop reads EOF tokens forever
skipToSemicolon(ps) ==
    IF NextSemicolon(ps, ps.pos) = 0
    THEN [ps EXCEPT !.pos = Len(ps.toks) + 1, !.hang = TRUE]
    ELSE [ps EXCEPT !.pos = NextSemicolon(ps, ps.pos)]

\* The recursive-descent methods are run as a machine: ps.stack holds one
\* frame per method call in progress (the method, the point pc it has reached
\* and its local variables) and ps.ret holds the value the last call returned.
\* Each method below is the step its frame f takes in state ps.
Frame(fn) ==
    [fn |-> fn, pc |-> 0, precedence |-> lowest, node |-> NilNode, list |-> <<>>,
     end |-> ""]

Top(s) == s.stack[Len(s.stack)]

\* the running method moves on as frame f
Goto(s, f) == [s EXCEPT !.stack[Len(s.stack)] = f]

\* the running method, continuing as frame f afterwards, calls callee
Call(s, f, callee) == [s EXCEPT !.stack = Append(Goto(s, f).stack, callee)]

\* the running method returns val to its caller
Return(s, val) ==
    [s EXCEPT !.stack = SubSeq(s.stack, 1, Len(s.stack) - 1), !.ret = val]

AtPc(f, pc) == [f EXCEPT !.pc = pc]

parseIdentifier(ps, f) ==
    Return(ps, [type |-> "Identifier", Value |-> curToken(ps).Literal])

parseIntegerLiteral(ps, f) ==
    IF curToken(ps).Literal \in IntLiterals
    THEN Return(ps, [type |-> "IntegerLiteral", Literal |-> curToken(ps).Literal,
                     Value |-> ParseInt(curToken(ps).Literal)])
    ELSE Return([ps EXCEPT !.errors = Append(ps.errors,
                    "could not parse " \o curToken(ps).Literal \o " as integer")],
                NilNode)

parseBoolean(ps, f) ==
    Return(ps, [type |-> "Boolean", Literal |-> curToken(ps).Literal,
                Value |-> curTokenIs(ps, "TRUE")])

parseStringLiteral(ps, f) ==
    Return(ps, [type |-> "StringLiteral", Literal |-> curToken(ps).Literal,
                Value |-> curToken(ps).Literal])

parseGroupedExpression(ps, f) ==
    IF f.pc = 0
    THEN Call(nextToken(ps), AtPc(f, 1), Frame("parseExpression"))
    ELSE LET x == expectPeek(ps, ")")
         IN  Return(x.ps, IF x.ok THEN ps.ret ELSE NilNode)

parsePrefixExpression(ps, f) ==
    IF f.pc = 0
    THEN Call(nextToken(ps),
              [f EXCEPT !.pc = 1,
                        !.node = [type |-> "PrefixExpression",
                                  Operator |-> curToken(ps).Literal,
                                  Right |-> NilNode]],
              [Frame("parseExpression") EXCEPT !.precedence = prefix])
    ELSE Return(ps, [f.node EXCEPT !.Right = ps.ret])

\* f.node holds the left operand when the frame is entered
parseInfixExpression(ps, f) ==
    IF f.pc = 0
    THEN Call(nextToken(ps),
              [f EXCEPT !.pc = 1,
                        !.node = [type |-> "InfixExpression", Left |-> f.node,
                                  Operator |-> curToken(ps).Literal,
                                  Right |-> NilNode]],
              [Frame("parseExpression") EXCEPT !.precedence = curPrecedence(ps)])
    ELSE Return(ps, [f.node EXCEPT !.Right = ps.ret])

parseIfExpression(ps, f) ==
    CASE f.pc = 0 ->
            LET x == expectPeek(ps, "(")
            IN  IF ~x.ok THEN Return(x.ps, NilNode)
                ELSE Call(nextToken(x.ps), AtPc(f, 1), Frame("parseExpression"))
      [] f.pc = 1 ->
            LET x2 == expectPeek(ps, ")")
                x3 == expectPeek(x2.ps, "{")
            IN  IF ~x2.ok THEN Return(x2.ps, NilNode)
                ELSE IF ~x3.ok THEN Return(x3.ps, NilNode)
                ELSE Call(x3.ps,
                          [f EXCEPT !.pc = 2,
                                    !.node = [type |-> "IfExpression",
                                              Condition |-> ps.ret,
                                              Consequence |-> NilNode,
                                              Alternative |-> NilNode]],
                          Frame("parseBlockStatement"))
      [] f.pc = 2 ->
            IF ~curTokenIs(ps, "}") THEN Return(ps, NilNode)
            ELSE IF peekTokenIs(ps, "ELSE")
            THEN LET x == expectPeek(nextToken(ps), "{")
                 IN  IF ~x.ok THEN Return(x.ps, NilNode)
                     ELSE Call(x.ps,
                               [f EXCEPT !.pc = 3, !.node.Consequence = ps.ret],
                               Frame("parseBlockStatement"))
            ELSE Return(ps, [f.node EXCEPT !.Consequence = ps.ret])
      [] f.pc = 3 ->
            IF ~curTokenIs(ps, "}") THEN Return(ps, NilNode)
            ELSE Return(ps, [f.node EXCEPT !.Alternative = ps.ret])

\* the loop of parseFunctionParameters over ", IDENT"
RECURSIVE paramLoop(_, _)
paramLoop(ps, ids) ==
    IF peekTokenIs(ps, ",")
    THEN LET q == nextToken(nextToken(ps))
         IN  paramLoop(q, Append(ids, curToken(q).Literal))
    ELSE LET x == expectPeek(ps, ")")
         IN  IF x.ok THEN [ok |-> TRUE, ids |-> ids, ps |-> x.ps]
             ELSE [ok |-> FALSE, ids |-> <<>>, ps |-> x.ps]

parseFunctionParameters(ps) ==
    IF peekTokenIs(ps, ")") THEN [ok |-> TRUE, ids |-> <<>>, ps |-> nextToken(ps)]
    ELSE LET q == nextToken(ps)
         IN  paramLoop(q, <<curToken(q).Literal>>)

parseFunctionLiteral(ps, f) ==
    IF f.pc = 0
    THEN LET x1 == expectPeek(ps, "(")
             prm == parseFunctionParameters(x1.ps)
             x2 == expectPeek(prm.ps, "{")
         IN  IF ~x1.ok THEN Return(x1.ps, NilNode)
             ELSE IF ~x2.ok THEN Return(x2.ps, NilNode)
             ELSE Call(x2.ps,
                       [f EXCEPT !.pc = 1,
                                 !.node = [type |-> "FunctionLiteral",
                                           Parameters |-> prm.ids,
                                           Body |-> NilNode]],
                       Frame("parseBlockStatement"))
    ELSE Return(ps, [f.node EXCEPT !.Body = ps.ret])

\* f.end is the closing token; returns the list (empty for Go's nil)
parseExpressionList(ps, f) ==
    IF f.pc = 0
    THEN IF peekTokenIs(ps, f.end) THEN Return(nextToken(ps), <<>>)
         ELSE Call(nextToken(ps), AtPc(f, 1), Frame("parseExpression"))
    ELSE IF peekTokenIs(ps, ",")
         THEN Call(nextToken(nextToken(ps)),
                   [f EXCEPT !.list = Append(f.list, ps.ret)],
                   Frame("parseExpression"))
         ELSE LET x == expectPeek(ps, f.end)
              IN  Return(x.ps, IF x.ok THEN Append(f.list, ps.ret) ELSE <<>>)

\* f.node holds the callee expression when the frame is entered
parseCallExpression(ps, f) ==
    IF f.pc = 0
    THEN Call(ps, AtPc(f, 1), [Frame("parseExpressionList") EXCEPT !.end = ")"])
    ELSE Return(ps, [type |-> "CallExpression", Function |-> f.node,
                     Arguments |-> ps.ret])

\* f.node holds the indexed expression when the frame is entered
parseIndexExpression(ps, f) ==
    IF f.pc = 0
    THEN Call(nextToken(ps), AtPc(f, 1), Frame("parseExpression"))
    ELSE LET x == expectPeek(ps, "]")
         IN  Return(x.ps, IF x.ok
                          THEN [type |-> "IndexExpression", Left |-> f.node,
                                Index |-> ps.ret]
                          ELSE NilNode)

parseArrayLiteral(ps, f) ==
    IF f.pc = 0
    THEN Call(ps, AtPc(f, 1), [Frame("parseExpressionList") EXCEPT !.end = "]"])
    ELSE Return(ps, [type |-> "ArrayLiteral", Elements |-> ps.ret])

\* p.prefixParseFns[p.curToken.Type]
prefixFn(t) ==
    CASE t = "IDENT" -> "parseIdentifier"
      [] t = "INT" -> "parseIntegerLiteral"
      [] t \in {"!", "-"} -> "parsePrefixExpression"
      [] t \in {"TRUE", "FALSE"} -> "parseBoolean"
      [] t = "(" -> "parseGroupedExpression"
      [] t = "IF" -> "parseIfExpression"
      [] t = "FUNCTION" -> "parseFunctionLiteral"
      [] t = "STRING" -> "parseStringLiteral"
      [] t = "[" -> "parseArrayLiteral"

\* p.infixParseFns[p.curToken.Type]
infixFn(t) ==
    CASE t = "(" -> "parseCallExpression"
      [] t = "[" -> "parseIndexExpression"
      [] OTHER -> "parseInfixExpression"

\* mutant: the loop also continues on equal precedence
infixLoopGuard_Leq(ps, precedence) ==
    ~peekTokenIs(ps, ";") /\ precedence <= peekPrecedence(ps)

\* whether the infix loop of parseExpression takes another round
infixLoopGuard(ps, precedence) ==
    ~peekTokenIs(ps, ";") /\ precedence < peekPrecedence(ps)

\* pc 0 calls the prefix function; pc 1 is the head of the infix loop, with
\* leftExp in ps.ret
parseExpression(ps, f) ==
    IF f.pc = 0
    THEN IF ~HasPrefixFn(curToken(ps).Type)
         THEN Return(noPrefixParseFnError(ps, curToken(ps).Type), NilNode)
         ELSE Call(ps, AtPc(f, 1), Frame(prefixFn(curToken(ps).Type)))
    ELSE IF infixLoopGuard(ps, f.precedence) /\ HasInfixFn(peekToken(ps).Type)
         THEN Call(nextToken(ps), f,
                   [Frame(infixFn(peekToken(ps).Type)) EXCEPT !.node = ps.ret])
         ELSE Return(ps, ps.ret)

parseLetStatement(ps, f) ==
    IF f.pc = 0
    THEN LET x1 == expectPeek(ps, "IDENT")
             x2 == expectPeek(x1.ps, "=")
         IN  IF ~x1.ok THEN Return(x1.ps, NilNode)
             ELSE IF ~x2.ok THEN Return(x2.ps, NilNode)
             ELSE Call(nextToken(x2.ps),
                       [f EXCEPT !.pc = 1,
                                 !.node = [type |-> "LetStatement",
                                           Name |-> curToken(x1.ps).Literal,
                                           Value |-> NilNode]],
                       Frame("parseExpression"))
    ELSE Return(skipToSemicolon(ps), [f.node EXCEPT !.Value = ps.ret])

parseReturnStatement(ps, f) ==
    IF f.pc = 0
    THEN Call(nextToken(ps), AtPc(f, 1), Frame("parseExpression"))
    ELSE Return(skipToSemicolon(ps),
                [type |-> "ReturnStatement", ReturnValue |-> ps.ret])

parseExpressionStatement(ps, f) ==
    IF f.pc = 0
    THEN Call(ps, AtPc(f, 1), Frame("parseExpression"))
    ELSE Return(IF peekTokenIs(ps, ";") THEN nextToken(ps) ELSE ps,
                [type |-> "ExpressionStatement", Expression |-> ps.ret])

\* returns what the method it selects returns
parseStatement(ps, f) ==
    CASE curToken(ps).Type = "LET" -> Goto(ps, Frame("parseLetStatement"))
      [] curToken(ps).Type = "RETURN" -> Goto(ps, Frame("parseReturnStatement"))
      [] OTHER -> Goto(ps, Frame("parseExpressionStatement"))

\* a nil statement is not appended
appendStatement(list, stmt) == IF stmt = NilNode THEN list ELSE Append(list, stmt)

parseBlockStatement(ps, f) ==
    CASE f.pc = 0 -> Goto(nextToken(ps), AtPc(f, 1))
      [] f.pc = 1 ->
            IF curTokenIs(ps, "}") \/ curTokenIs(ps, "EOF")
            THEN Return(ps, [type |-> "BlockStatement", Statements |-> f.list])
            ELSE Call(ps, AtPc(f, 2), Frame("parseStatement"))
      [] f.pc = 2 ->
            Goto(nextToken(ps),
                 [f EXCEPT !.pc = 1, !.list = appendStatement(f.list, ps.ret)])

ParseProgram(ps, f) ==
    IF f.pc = 0
    THEN IF curTokenIs(ps, "EOF")
         THEN Return(ps, [type |-> "Program", Statements |-> f.list])
         ELSE Call(ps, AtPc(f, 1), Frame("parseStatement"))
    ELSE Goto(nextToken(ps),
              [f EXCEPT !.pc = 0, !.list = appendStatement(f.list, ps.ret)])

\* one step of the method whose frame is on top of the stack
ParserStep(ps) ==
    LET f == Top(ps)
    IN  CASE f.fn = "ParseProgram" -> ParseProgram(ps, f)
          [] f.fn = "parseStatement" -> parseStatement(ps, f)
          [] f.fn = "parseLetStatement" -> parseLetStatement(ps, f)
          [] f.fn = "parseReturnStatement" -> parseReturnStatement(ps, f)
          [] f.fn = "parseExpressionStatement" -> parseExpressionStatement(ps, f)
          [] f.fn = "parseBlockStatement" -> parseBlockStatement(ps, f)
          [] f.fn = "parseExpression" -> parseExpression(ps, f)
          [] f.fn = "parseIdentifier" -> parseIdentifier(ps, f)
          [] f.fn = "parseIntegerLiteral" -> parseIntegerLiteral(ps, f)
          [] f.fn = "parseBoolean" -> parseBoolean(ps, f)
          [] f.fn = "parseStringLiteral" -> parseStringLiteral(ps, f)
          [] f.fn = "parseGroupedExpression" -> parseGroupedExpression(ps, f)
          [] f.fn = "parsePrefixExpression" -> parsePrefixExpression(ps, f)
          [] f.fn = "parseInfixExpression" -> parseInfixExpression(ps, f)
          [] f.fn = "parseIfExpression" -> parseIfExpression(ps, f)
          [] f.fn = "parseFunctionLiteral" -> parseFunctionLiteral(ps, f)
          [] f.fn = "parseExpressionList" -> parseExpressionList(ps, f)
          [] f.fn = "parseCallExpression" -> parseCallExpression(ps, f)
          [] f.fn = "parseIndexExpression" -> parseIndexExpression(ps, f)
          [] f.fn = "parseArrayLiteral" -> parseArrayLiteral(ps, f)

\* the parser has returned from ParseProgram, or spins in a loop forever
ParserDone(ps) == ps.stack = <<>> \/ ps.hang

\* 4^k steps, or fewer when the parser is done before
RECURSIVE ParserRun(_, _)
ParserRun(ps, k) ==
    IF k = 0 THEN (IF ParserDone(ps) THEN ps ELSE ParserStep(ps))
    ELSE LET a == ParserRun(ps, k - 1)
             b == ParserRun(a, k - 1)
             c == ParserRun(b, k - 1)
         IN  IF ParserDone(a) THEN a
             ELSE IF ParserDone(b) THEN b
             ELSE IF ParserDone(c) THEN c
             ELSE ParserRun(c, k - 1)

\* lexer, parser.New and ParseProgram on a sequence of lexemes:
\* [program, errors, hang]
Parse(ws) ==
    LET ps == ParserRun(New(LexAll(ws)), ParserFuel)
    IN  [program |-> ps.ret, errors |-> ps.errors, hang |-> ps.hang]

(***************************************************************************)
(* Objects                                                                 *)
(*                                                                         *)
(* An object is a record tagged with its Type().  Objects that Go compares *)
(* by pointer carry the address they were allocated at; the singletons     *)
(* True, False and Null are the only BOOLEAN objects and the only NULL at  *)
(* address 0.  Array elements live in the heap, so that two references to  *)
(* one array see each other's updates.                                     *)
(***************************************************************************)
\* the nil interface value (Eval's result for a let statement or an empty block)
Nil == [kind |-> "nil"]

\* a Go runtime panic unwinding the evaluator (or the VM)
Panic(msg) == [kind |-> "panic", Message |-> msg]

Integer(n) == [kind |-> "INTEGER", i |-> n]

True == [kind |-> "BOOLEAN", b |-> TRUE]

False == [kind |-> "BOOLEAN", b |-> FALSE]

Null == [kind |-> "NULL", addr |-> 0]

Str(s) == [kind |-> "STRING", s |-> s]

Error(msg) == [kind |-> "ERROR", Message |-> msg]

ReturnValue(a, v) == [kind |-> "RETURN_VALUE", addr |-> a, rv |-> v]

Function(a, params, body, env) ==
    [kind |-> "FUNCTION", addr |-> a, Parameters |-> params, Body |-> body, Env |-> env]

Builtin(name) == [kind |-> "BUILTIN", name |-> name]

Array(ref) == [kind |-> "ARRAY", ref |-> ref]

\* &object.Hash{Pairs: pairs}; the map Pairs is the sequence of its entries
\* [hk, Key, Value], one per hash key
Hash(a, pairs) == [kind |-> "HASH", addr |-> a, Pairs |-> pairs]

\* the objects with a HashKey method
Hashable(obj) == obj.kind \in {"INTEGER", "BOOLEAN", "STRING"}

\* FNV-1a of the bytes of s, which tells the strings of the model apart
fnv64a(s) == <<"fnv64a", s>>

\* Integer.HashKey, Boolean.HashKey, String.HashKey
HashKey(obj) ==
    [Type |-> obj.kind,
     Value |-> CASE obj.kind = "INTEGER" -> obj.i
                 [] obj.kind = "BOOLEAN" -> (IF obj.b THEN 1 ELSE 0)
                 [] obj.kind = "STRING" -> fnv64a(obj.s)]

\* == on two HashKey structs
SameKey(a, b) == a.Type = b.Type /\ a.Value = b.Value

\* pairs[hk], ok
HasPair(pairs, hk) == \E k \in DOMAIN pairs : SameKey(pairs[k].hk, hk)

PairAt(pairs, hk) == pairs[CHOOSE k \in DOMAIN pairs : SameKey(pairs[k].hk, hk)]

\* pairs[hk] = HashPair{Key: key, Value: value}
SetPair(pairs, hk, key, value) ==
    LET entry == [hk |-> hk, Key |-> key, Value |-> value]
    IN  IF HasPair(pairs, hk)
        THEN [k \in DOMAIN pairs |-> IF SameKey(pairs[k].hk, hk) THEN entry ELSE pairs[k]]
        ELSE Append(pairs, entry)

\* obj.Type() as a string; calling it on the nil interface panics
Type(obj) == obj.kind

isNil(obj) == obj.kind = "nil"

isPanic(obj) == obj.kind = "panic"

\* left == right on two interface values: pointer identity
SameObject(l, r) ==
    IF l.kind # r.kind THEN FALSE
    ELSE CASE l.kind = "nil" -> TRUE
           [] l.kind = "BOOLEAN" -> l.b = r.b
           [] l.kind \in {"NULL", "FUNCTION", "RETURN_VALUE", "HASH"} -> l.addr = r.addr
           [] l.kind = "ARRAY" -> l.ref = r.ref
           [] l.kind = "BUILTIN" -> l.name = r.name
           [] OTHER -> FALSE

\* Go's integer division truncates toward zero
Quot(a, b) ==
    IF (a >= 0) = (b >= 0)
    THEN (IF a >= 0 THEN a ELSE -a) \div (IF b >= 0 THEN b ELSE -b)
    ELSE -((IF a >= 0 THEN a ELSE -a) \div (IF b >= 0 THEN b ELSE -b))

(***************************************************************************)
(* Evaluator state.  The functions of the evaluator take and return        *)
(*   envs  : the environments allocated so far, [store, outer]             *)
(*   heap  : the element sequences of the arrays allocated so far          *)
(*   next  : the next fresh address                                        *)
(*   out   : the lines written by puts                                     *)
(*   log   : the history of evaluation events (observation only)           *)
(*   act   : the function activation being evaluated (0: the program)      *)
(***************************************************************************)
MaxCallDepth == 6

\* an evaluation may take 4^EvalFuel steps
EvalFuel == 5

Event(e, st, w, ks, v) == [ev |-> e, act |-> st.act, what |-> w, kinds |-> ks, val |-> v]

Log(st, e, w, ks, v) == [st EXCEPT !.log = Append(@, Event(e, st, w, ks, v))]

\* a result of an evaluator function: the object and the state after it
V(val, st) == [val |-> val, st |-> st]

Kinds(objs) == [k \in DOMAIN objs |-> objs[k].kind]

\* object.NewEnvironment / object.NewEnclosedEnvironment: the new environment
\* is the last one of st.envs
NewEnclosedEnvironment(st, outer) ==
    [st EXCEPT !.envs = Append(@, [store |-> <<>>, outer |-> outer])]

NewEnvironment(st) == NewEnclosedEnvironment(st, 0)

HasKey(store, name) == \E k \in DOMAIN store : store[k].name = name

At(store, name) == store[CHOOSE k \in DOMAIN store : store[k].name = name].val

RECURSIVE Get(_, _, _)
Get(st, e, name) ==
    IF HasKey(st.envs[e].store, name)
    THEN [ok |-> TRUE, val |-> At(st.envs[e].store, name)]
    ELSE IF st.envs[e].outer # 0 THEN Get(st, st.envs[e].outer, name)
    ELSE [ok |-> FALSE, val |-> Nil]

\* mutant: a name that an outer environment binds is written there
RECURSIVE Set_WhereBound(_, _, _, _)
Set_WhereBound(st, e, name, val) ==
    IF ~HasKey(st.envs[e].store, name) /\ st.envs[e].outer # 0
       /\ Get(st, st.envs[e].outer, name).ok
    THEN Set_WhereBound(st, st.envs[e].outer, name, val)
    ELSE
    LET store == st.envs[e].store
        new == IF HasKey(store, name)
               THEN [k \in DOMAIN store |->
                        IF store[k].name = name THEN [name |-> name, val |-> val]
                        ELSE store[k]]
               ELSE Append(store, [name |-> name, val |-> val])
    IN  Log([st EXCEPT !.envs[e].store = new], "set", name, <<val.kind>>, val)

Set(st, e, name, val) ==
    LET store == st.envs[e].store
        new == IF HasKey(store, name)
               THEN [k \in DOMAIN store |->
                        IF store[k].name = name THEN [name |-> name, val |-> val]
                        ELSE store[k]]
               ELSE Append(store, [name |-> name, val |-> val])
    IN  Log([st EXCEPT !.envs[e].store = new], "set", name, <<val.kind>>, val)

\* a fresh address
Alloc(st) == [st EXCEPT !.next = @ + 1]

\* &object.Array{Elements: elements}
NewArray(st, elements) ==
    V(Array(Len(st.heap) + 1), [st EXCEPT !.heap = Append(@, elements)])

Elements(st, arr) == st.heap[arr.ref]

(***************************************************************************)
(* Inspect                                                                 *)
(***************************************************************************)
RECURSIVE Inspect(_, _)
RECURSIVE InspectAll(_, _, _)
InspectAll(st, objs, i) ==
    IF i > Len(objs) THEN ""
    ELSE (IF i > 1 THEN ", " ELSE "") \o Inspect(st, objs[i]) \o InspectAll(st, objs, i + 1)

Inspect(st, obj) ==
    CASE obj.kind = "INTEGER" -> ToString(obj.i)
      [] obj.kind = "BOOLEAN" -> IF obj.b THEN "true" ELSE "false"
      [] obj.kind = "NULL" -> "null"
      [] obj.kind = "STRING" -> obj.s
      [] obj.kind = "ERROR" -> "ErrorObj: " \o obj.Message
      [] obj.kind = "RETURN_VALUE" -> Inspect(st, obj.rv)
      [] obj.kind = "BUILTIN" -> "builtin function"
      [] obj.kind = "ARRAY" -> "[" \o InspectAll(st, Elements(st, obj), 1) \o "]"
      [] obj.kind = "FUNCTION" ->
            "fn(" \o Join(obj.Parameters, ", ") \o ") {\n" \o String(obj.Body) \o "\n}"
      [] OTHER -> "PANIC"

(***************************************************************************)
(* The evaluator's builtins.  st.bv selects the table: "v1" is the one     *)
(* with put and an appending push, "v2" the one with puts and a copying    *)
(* push.                                                                   *)
(***************************************************************************)
BuiltinVersions == {"v1", "v2"}

builtinNames(bv) ==
    IF bv = "v1" THEN {"len", "put", "first", "last", "rest", "push"}
    ELSE {"len", "puts", "first", "last", "rest", "push"}

wrongNumberOfArguments(got, want) ==
    Error("wrong number of arguments. got=" \o ToString(got) \o ", want=" \o ToString(want))

\* &object.Null{} in v1, the singleton Null in v2
emptyResult(st) ==
    IF st.bv = "v1" THEN V([kind |-> "NULL", addr |-> st.next], Alloc(st)) ELSE V(Null, st)

\* the default branch of the type switch on args[0] calls arg.Type(); the
\* backquotes of the Go messages are written as single quotes
mustBeArray(name, arg, st) ==
    IF isNil(arg) THEN V(Panic("nil pointer dereference"), st)
    ELSE V(Error("argument to '" \o name \o "' must be Array, got " \o Type(arg)), st)

builtin_len(args, st) ==
    IF Len(args) # 1 THEN V(wrongNumberOfArguments(Len(args), 1), st)
    ELSE CASE args[1].kind = "STRING" -> V(Integer(Len(args[1].s)), st)
           [] args[1].kind = "ARRAY" -> V(Integer(Len(Elements(st, args[1]))), st)
           [] args[1].kind = "nil" -> V(Panic("nil pointer dereference"), st)
           [] OTHER -> V(Error("argument to 'len' not supported. got=" \o Type(args[1])), st)

builtin_put(args, st) ==
    IF Len(args) # 2 THEN V(wrongNumberOfArguments(Len(args), 2), st)
    ELSE IF args[1].kind = "ARRAY"
    THEN LET r == emptyResult(st)
         IN  V(r.val, [r.st EXCEPT !.heap[args[1].ref] = Append(@, args[2])])
    ELSE mustBeArray("put", args[1], st)

RECURSIVE putsLoop(_, _, _)
putsLoop(args, i, st) ==
    IF i > Len(args) THEN V(Null, st)
    ELSE IF isNil(args[i]) THEN V(Panic("nil pointer dereference"), st)
    ELSE putsLoop(args, i + 1, [st EXCEPT !.out = Append(@, Inspect(st, args[i]))])

builtin_puts(args, st) == putsLoop(args, 1, st)

builtin_first(args, st) ==
    IF Len(args) # 1 THEN V(wrongNumberOfArguments(Len(args), 1), st)
    ELSE IF args[1].kind = "ARRAY"
    THEN IF Len(Elements(st, args[1])) > 0 THEN V(Elements(st, args[1])[1], st)
         ELSE emptyResult(st)
    ELSE mustBeArray("first", args[1], st)

builtin_last(args, st) ==
    IF Len(args) # 1 THEN V(wrongNumberOfArguments(Len(args), 1), st)
    ELSE IF args[1].kind = "ARRAY"
    THEN IF Len(Elements(st, args[1])) > 0
         THEN V(Elements(st, args[1])[Len(Elements(st, args[1]))], st)
         ELSE emptyResult(st)
    ELSE mustBeArray("last", args[1], st)

builtin_rest(args, st) ==
    IF Len(args) # 1 THEN V(wrongNumberOfArguments(Len(args), 1), st)
    ELSE IF args[1].kind = "ARRAY"
    THEN IF Len(Elements(st, args[1])) > 0
         THEN NewArray(st, Tail(Elements(st, args[1])))
         ELSE emptyResult(st)
    ELSE mustBeArray("rest", args[1], st)

\* mutant: the copying push appends to the argument's own element slice as well
pushCopy_Aliased(args, st) ==
    V(args[1], [st EXCEPT !.heap[args[1].ref] = Append(@, args[2])])

\* push of v2: a new array of l+1 elements, the argument left alone
pushCopy(args, st) ==
    NewArray(st, Append(Elements(st, args[1]), args[2]))

\* push of v1: arg.Elements = append(arg.Elements, args[1]); return arg
pushAppend(args, st) ==
    V(args[1], [st EXCEPT !.heap[args[1].ref] = Append(@, args[2])])

builtin_push(args, st) ==
    IF Len(args) # 2 THEN V(wrongNumberOfArguments(Len(args), 2), st)
    ELSE IF args[1].kind = "ARRAY"
    THEN IF st.bv = "v1" THEN pushAppend(args, st) ELSE pushCopy(args, st)
    ELSE mustBeArray("push", args[1], st)

\* builtin.Fn(args...)
builtinFn(name, args, st) ==
    CASE name = "len" -> builtin_len(args, st)
      [] name = "put" -> builtin_put(args, st)
      [] name = "puts" -> builtin_puts(args, st)
      [] name = "first" -> builtin_first(args, st)
      [] name = "last" -> builtin_last(args, st)
      [] name = "rest" -> builtin_rest(args, st)
      [] name = "push" -> builtin_push(args, st)

(***************************************************************************)
(* The tree-walking evaluator                                              *)
(***************************************************************************)
\* isError is false on the nil interface
isError(obj) == obj.kind = "ERROR"

Aborts(obj) == isError(obj) \/ isPanic(obj)

nativeBoolToBooleanObject(b) == IF b THEN True ELSE False

evalBangOperatorExpression(right) ==
    CASE SameObject(right, True) -> False
      [] SameObject(right, False) -> True
      [] SameObject(right, Null) -> True
      [] OTHER -> False

evalMinusPrefixOperatorExpression(right) ==
    CASE right.kind = "INTEGER" -> Integer(-right.i)
      [] right.kind = "nil" -> Panic("nil pointer dereference")
      [] OTHER -> Error("unsupported operator: -" \o Type(right))

evalPrefixExpression(operator, right) ==
    CASE operator = "!" -> evalBangOperatorExpression(right)
      [] operator = "-" -> evalMinusPrefixOperatorExpression(right)
      [] OTHER -> IF isNil(right) THEN Panic("nil pointer dereference")
                  ELSE Error("unsupported operator: " \o operator \o Type(right))

unsupportedOperator(operator, left, right) ==
    Error("unsupported operator: " \o Type(left) \o " " \o operator \o " " \o Type(right))

evalIntegerInfixExpression(operator, left, right) ==
    CASE operator = "+" -> Integer(left.i + right.i)
      [] operator = "-" -> Integer(left.i - right.i)
      [] operator = "*" -> Integer(left.i * right.i)
      [] operator = "/" -> IF right.i = 0 THEN Panic("integer divide by zero")
                           ELSE Integer(Quot(left.i, right.i))
      [] operator = "<" -> nativeBoolToBooleanObject(left.i < right.i)
      [] operator = ">" -> nativeBoolToBooleanObject(left.i > right.i)
      [] operator = "==" -> nativeBoolToBooleanObject(left.i = right.i)
      [] operator = "!=" -> nativeBoolToBooleanObject(left.i # right.i)
      [] OTHER -> unsupportedOperator(operator, left, right)

evalStringInfixExpression(operator, left, right) ==
    IF operator = "+" THEN Str(left.s \o right.s)
    ELSE unsupportedOperator(operator, left, right)

\* left.Type() is called first; right.Type() only where && and the order of the
\* tests let control reach it
evalInfixExpression(operator, left, right) ==
    IF isNil(left) THEN Panic("nil pointer dereference")
    ELSE IF isNil(right) /\ left.kind \in {"INTEGER", "STRING"}
    THEN Panic("nil pointer dereference")
    ELSE IF left.kind = "INTEGER" /\ right.kind = "INTEGER"
    THEN evalIntegerInfixExpression(operator, left, right)
    ELSE IF left.kind = "STRING" /\ right.kind = "STRING"
    THEN evalStringInfixExpression(operator, left, right)
    ELSE IF operator = "==" THEN nativeBoolToBooleanObject(SameObject(left, right))
    ELSE IF operator = "!=" THEN nativeBoolToBooleanObject(~SameObject(left, right))
    ELSE IF isNil(right) THEN Panic("nil pointer dereference")
    ELSE IF left.kind # right.kind
    THEN Error("type mismatch: " \o Type(left) \o " " \o operator \o " " \o Type(right))
    ELSE unsupportedOperator(operator, left, right)

isTruthy(obj) ==
    CASE SameObject(obj, Null) -> FALSE
      [] SameObject(obj, True) -> TRUE
      [] SameObject(obj, False) -> FALSE
      [] OTHER -> TRUE

evalIdentifier(node, env, st) ==
    LET g == Get(st, env, node.Value)
    IN  IF g.ok THEN g.val
        ELSE IF node.Value \in builtinNames(st.bv) THEN Builtin(node.Value)
        ELSE Error("identifier not found: " \o node.Value)

evalArrayIndexExpression(st, arr, idx) ==
    IF idx.i < 0 \/ idx.i > Len(Elements(st, arr)) - 1 THEN Null
    ELSE Elements(st, arr)[idx.i + 1]

\* index.Type() on the nil interface panics
evalHashIndexExpression(hash, idx) ==
    IF isNil(idx) THEN Panic("nil pointer dereference")
    ELSE IF ~Hashable(idx) THEN Error("unusable as hash key: " \o Type(idx))
    ELSE IF ~HasPair(hash.Pairs, HashKey(idx)) THEN Null
    ELSE PairAt(hash.Pairs, HashKey(idx)).Value

evalIndexExpression(st, left, idx) ==
    IF isNil(left) THEN Panic("nil pointer dereference")
    ELSE IF left.kind = "ARRAY" /\ isNil(idx) THEN Panic("nil pointer dereference")
    ELSE IF left.kind = "ARRAY" /\ idx.kind = "INTEGER"
    THEN evalArrayIndexExpression(st, left, idx)
    ELSE IF left.kind = "HASH" THEN evalHashIndexExpression(left, idx)
    ELSE Error("index operator not supported")

unwrapReturnValue(obj) == IF obj.kind = "RETURN_VALUE" THEN obj.rv ELSE obj

\* env.Set(param, args[paramIdx]) for every parameter; args[paramIdx] panics
\* when there are fewer arguments than parameters
RECURSIVE bindParameters(_, _, _, _, _)
bindParameters(params, args, i, env, st) ==
    IF i > Len(params) THEN [panic |-> FALSE, st |-> st]
    ELSE IF i > Len(args) THEN [panic |-> TRUE, st |-> st]
    ELSE bindParameters(params, args, i + 1, env, Set(st, env, params[i], args[i]))

extendFunctionEnv(fn, args, st) ==
    LET s1 == NewEnclosedEnvironment(st, fn.Env)
        b == bindParameters(fn.Parameters, args, 1, Len(s1.envs), s1)
    IN  [env |-> Len(s1.envs), panic |-> b.panic, st |-> b.st]

\* entering and leaving the evaluation of a user function's body
enterCall(st) ==
    [st EXCEPT !.act = st.nact + 1, !.nact = @ + 1, !.depth = @ + 1]

leaveCall(st, caller) == [st EXCEPT !.act = caller.act, !.depth = caller.depth]

\* The recursive functions of the evaluator are run as a machine, like the
\* parser's: st.stack holds a frame per call in progress, st.ret the object (or
\* the list of objects) the last call returned.
EvalFrame(fn, node, env) ==
    [fn |-> fn, pc |-> 0, node |-> node, env |-> env, i |-> 1, list |-> <<>>,
     val |-> Nil, act |-> 0, depth |-> 0]

\* a runtime panic unwinds every call in progress
Throw(st, p) == [st EXCEPT !.stack = <<>>, !.ret = p]

HasEvent(st, e) == \E k \in DOMAIN st.log : st.log[k].ev = e

\* return val from Eval, recording where the first ERROR appears
EvalReturn(st, val) ==
    IF isPanic(val) THEN Throw(st, val)
    ELSE IF isError(val) /\ ~HasEvent(st, "error")
    THEN Return(Log(st, "error", val.Message, <<>>, Nil), val)
    ELSE Return(st, val)

evalProgram(st, f) ==
    IF f.pc = 0
    THEN IF f.i > Len(f.node.Statements) THEN Return(st, f.val)
         ELSE Call(st, AtPc(f, 1), EvalFrame("Eval", f.node.Statements[f.i], f.env))
    ELSE CASE st.ret.kind = "RETURN_VALUE" -> Return(st, st.ret.rv)
           [] st.ret.kind = "ERROR" -> Return(st, st.ret)
           [] OTHER -> Goto(st, [f EXCEPT !.pc = 0, !.i = f.i + 1, !.val = st.ret])

evalBlockStatement(st, f) ==
    IF f.pc = 0
    THEN IF f.i > Len(f.node.Statements) THEN Return(st, f.val)
         ELSE Call(st, AtPc(f, 1), EvalFrame("Eval", f.node.Statements[f.i], f.env))
    ELSE IF st.ret.kind \in {"RETURN_VALUE", "ERROR"} THEN Return(st, st.ret)
         ELSE Goto(st, [f EXCEPT !.pc = 0, !.i = f.i + 1, !.val = st.ret])

\* mutant: an error among the expressions does not end the list
evalExpressions_NoShortCircuit(st, f) ==
    IF f.pc = 0
    THEN IF f.i > Len(f.list) THEN Return(st, f.val)
         ELSE Call(st, AtPc(f, 1), EvalFrame("Eval", f.list[f.i], f.env))
    ELSE Goto(st, [f EXCEPT !.pc = 0, !.i = f.i + 1, !.val = Append(f.val, st.ret)])

\* f.list is the list of expressions; on an error the result is the
\* one-element list of the error
evalExpressions(st, f) ==
    IF f.pc = 0
    THEN IF f.i > Len(f.list) THEN Return(st, f.val)
         ELSE Call(st, AtPc(f, 1), EvalFrame("Eval", f.list[f.i], f.env))
    ELSE IF isError(st.ret) THEN Return(st, <<st.ret>>)
         ELSE Goto(st, [f EXCEPT !.pc = 0, !.i = f.i + 1, !.val = Append(f.val, st.ret)])

ExpressionsFrame(exps, env) ==
    [EvalFrame("evalExpressions", NilNode, env) EXCEPT !.list = exps, !.val = <<>>]

evalIfExpression(st, f) ==
    IF f.pc = 0
    THEN Call(st, AtPc(f, 1), EvalFrame("Eval", f.node.Condition, f.env))
    ELSE IF isError(st.ret) THEN Return(st, st.ret)
         ELSE IF isTruthy(st.ret)
         THEN Goto(st, EvalFrame("Eval", f.node.Consequence, f.env))
         ELSE IF f.node.Alternative # NilNode
         THEN Goto(st, EvalFrame("Eval", f.node.Alternative, f.env))
         ELSE Return(st, Null)

\* f.val is the callee and f.list the arguments; f.act and f.depth keep the
\* caller's activation while the body runs
applyFunction(st, f) ==
    IF f.pc = 0
    THEN CASE f.val.kind = "FUNCTION" ->
                IF st.depth >= MaxCallDepth THEN Throw(st, Panic("stack overflow"))
                ELSE LET x == extendFunctionEnv(f.val, f.list, st)
                     IN  IF x.panic THEN Throw(x.st, Panic("index out of range"))
                         ELSE Call(enterCall(x.st),
                                   [f EXCEPT !.pc = 1, !.act = st.act, !.depth = st.depth],
                                   EvalFrame("Eval", f.val.Body, x.env))
           [] f.val.kind = "BUILTIN" ->
                LET r == builtinFn(f.val.name, f.list, st)
                IN  IF isPanic(r.val) THEN Throw(r.st, r.val) ELSE Return(r.st, r.val)
           [] OTHER -> Return(st, Error("not a function"))
    ELSE Return(leaveCall(Log(st, "exit", "", <<unwrapReturnValue(st.ret).kind>>,
                              unwrapReturnValue(st.ret)), f),
                unwrapReturnValue(st.ret))

ApplyFrame(fn, args) ==
    [EvalFrame("applyFunction", NilNode, 0) EXCEPT !.val = fn, !.list = args]

\* for keyNode, valueNode := range node.Pairs: Go visits the entries of a map
\* in an order of its choosing, here node.Visit; f.list is the map pairs and
\* f.val the key of the pair being evaluated
evalHashLiteral(st, f) ==
    LET node == f.node
    IN  CASE f.pc = 0 ->
                IF f.i > Len(node.Pairs)
                THEN Return(Alloc(st), Hash(st.next, f.list))
                ELSE Call(st, AtPc(f, 1),
                          EvalFrame("Eval", node.Pairs[node.Visit[f.i]].Key, f.env))
          [] f.pc = 1 ->
                IF isError(st.ret) THEN Return(st, st.ret)
                ELSE IF isNil(st.ret) \/ ~Hashable(st.ret)
                THEN Return(st, Error("unusable as hash key"))
                ELSE Call(st, [f EXCEPT !.pc = 2, !.val = st.ret],
                          EvalFrame("Eval", node.Pairs[node.Visit[f.i]].Value, f.env))
          [] f.pc = 2 ->
                IF isError(st.ret) THEN Return(st, st.ret)
                ELSE Goto(st, [f EXCEPT !.pc = 0, !.i = f.i + 1,
                                        !.list = SetPair(f.list, HashKey(f.val), f.val, st.ret)])

\* Eval's type switch on f.node at pc 0; the other values of pc are the points
\* a case of the switch has reached
Eval(st, f) ==
    LET node == f.node
        env == f.env
        s == Log(st, "eval", node.type, <<>>, Nil)
    IN  CASE f.pc = 0 ->
            CASE node.type = "Program" ->
                    Call(s, AtPc(f, 1), EvalFrame("evalProgram", node, env))
              [] node.type = "ExpressionStatement" ->
                    Call(s, AtPc(f, 1), EvalFrame("Eval", node.Expression, env))
              [] node.type = "IntegerLiteral" -> EvalReturn(s, Integer(node.Value))
              [] node.type = "Boolean" ->
                    EvalReturn(s, nativeBoolToBooleanObject(node.Value))
              [] node.type = "PrefixExpression" ->
                    Call(s, AtPc(f, 2), EvalFrame("Eval", node.Right, env))
              [] node.type = "InfixExpression" ->
                    Call(s, AtPc(f, 3), EvalFrame("Eval", node.Left, env))
              [] node.type = "BlockStatement" ->
                    Call(s, AtPc(f, 1), EvalFrame("evalBlockStatement", node, env))
              [] node.type = "IfExpression" ->
                    Call(s, AtPc(f, 1), EvalFrame("evalIfExpression", node, env))
              [] node.type = "ReturnStatement" ->
                    Call(s, AtPc(f, 5), EvalFrame("Eval", node.ReturnValue, env))
              [] node.type = "LetStatement" ->
                    Call(s, AtPc(f, 6), EvalFrame("Eval", node.Value, env))
              [] node.type = "Identifier" -> EvalReturn(s, evalIdentifier(node, env, s))
              [] node.type = "FunctionLiteral" ->
                    EvalReturn(Alloc(s), Function(s.next, node.Parameters, node.Body, env))
              [] node.type = "CallExpression" ->
                    Call(s, AtPc(f, 7), EvalFrame("Eval", node.Function, env))
              [] node.type = "StringLiteral" -> EvalReturn(s, Str(node.Value))
              [] node.type = "ArrayLiteral" ->
                    Call(s, AtPc(f, 9), ExpressionsFrame(node.Elements, env))
              [] node.type = "IndexExpression" ->
                    Call(s, AtPc(f, 10), EvalFrame("Eval", node.Left, env))
              [] node.type = "HashLiteral" ->
                    Call(s, AtPc(f, 1), EvalFrame("evalHashLiteral", node, env))
              [] OTHER -> EvalReturn(s, Error("unknown node type for eval"))
          \* return what the call returned
          [] f.pc = 1 -> EvalReturn(st, st.ret)
          \* PrefixExpression: right
          [] f.pc = 2 ->
            IF isError(st.ret) THEN EvalReturn(st, st.ret)
            ELSE EvalReturn(Log(st, "operands", node.Operator, <<st.ret.kind>>, Nil),
                            evalPrefixExpression(node.Operator, st.ret))
          \* InfixExpression: left, then right
          [] f.pc = 3 ->
            IF isError(st.ret) THEN EvalReturn(st, st.ret)
            ELSE Call(st, [f EXCEPT !.pc = 4, !.val = st.ret],
                      EvalFrame("Eval", node.Right, env))
          [] f.pc = 4 ->
            IF isError(st.ret) THEN EvalReturn(st, st.ret)
            ELSE EvalReturn(Log(st, "operands", node.Operator,
                                <<f.val.kind, st.ret.kind>>, Nil),
                            evalInfixExpression(node.Operator, f.val, st.ret))
          \* ReturnStatement: val
          [] f.pc = 5 ->
            IF isError(st.ret) THEN EvalReturn(st, st.ret)
            ELSE EvalReturn(Log(Alloc(st), "return", "", <<st.ret.kind>>, st.ret),
                            ReturnValue(st.next, st.ret))
          \* LetStatement: val; the function ends on its final return nil
          [] f.pc = 6 ->
            IF isError(st.ret) THEN EvalReturn(st, st.ret)
            ELSE EvalReturn(Set(st, env, node.Name, st.ret), Nil)
          \* CallExpression: function, then args
          [] f.pc = 7 ->
            IF isError(st.ret) THEN EvalReturn(st, st.ret)
            ELSE Call(st, [f EXCEPT !.pc = 8, !.val = st.ret],
                      ExpressionsFrame(node.Arguments, env))
          [] f.pc = 8 ->
            IF Len(st.ret) = 1 /\ isError(st.ret[1]) THEN EvalReturn(st, st.ret[1])
            ELSE Call(Log(st, "call", f.val.kind, Kinds(st.ret), Nil), AtPc(f, 1),
                      ApplyFrame(f.val, st.ret))
          \* ArrayLiteral: elements
          [] f.pc = 9 ->
            IF Len(st.ret) = 1 /\ isError(st.ret[1]) THEN EvalReturn(st, st.ret[1])
            ELSE EvalReturn(NewArray(st, st.ret).st, NewArray(st, st.ret).val)
          \* IndexExpression: left, then index
          [] f.pc = 10 ->
            IF isError(st.ret) THEN EvalReturn(st, st.ret)
            ELSE Call(st, [f EXCEPT !.pc = 11, !.val = st.ret],
                      EvalFrame("Eval", node.Index, env))
          [] f.pc = 11 ->
            IF isError(st.ret) THEN EvalReturn(st, st.ret)
            ELSE EvalReturn(st, evalIndexExpression(st, f.val, st.ret))

\* one step of the function whose frame is on top of the stack
EvalStep(st) ==
    LET f == Top(st)
    IN  CASE f.fn = "Eval" -> Eval(st, f)
          [] f.fn = "evalProgram" -> evalProgram(st, f)
          [] f.fn = "evalBlockStatement" -> evalBlockStatement(st, f)
          [] f.fn = "evalExpressions" -> evalExpressions(st, f)
          [] f.fn = "evalIfExpression" -> evalIfExpression(st, f)
          [] f.fn = "evalHashLiteral" -> evalHashLiteral(st, f)
          [] f.fn = "applyFunction" -> applyFunction(st, f)

\* the outermost Eval has returned, or a panic has unwound it
EvalDone(st) == st.stack = <<>>

\* 4^k steps, or fewer when the evaluator is done before
RECURSIVE EvalRun(_, _)
EvalRun(st, k) ==
    IF k = 0 THEN (IF EvalDone(st) THEN st ELSE EvalStep(st))
    ELSE LET a == EvalRun(st, k - 1)
             b == EvalRun(a, k - 1)
             c == EvalRun(b, k - 1)
         IN  IF EvalDone(a) THEN a
             ELSE IF EvalDone(b) THEN b
             ELSE IF EvalDone(c) THEN c
             ELSE EvalRun(c, k - 1)

GlobalEnv == 1

\* the state of a fresh interpreter that uses builtins table bv, its global
\* environment object.NewEnvironment(), and the call Eval(program, env)
NewEvalState(bv, program) ==
    [envs |-> <<[store |-> <<>>, outer |-> 0]>>, heap |-> <<>>, next |-> 1,
     out |-> <<>>, log |-> <<>>, act |-> 0, nact |-> 0, depth |-> 0, bv |-> bv,
     stack |-> <<EvalFrame("Eval", program, GlobalEnv)>>, ret |-> Nil]

(***************************************************************************)
(* Bytecode (package code).  Instructions are sequences of bytes; byte     *)
(* offsets count from 0 as in the Go code.                                 *)
(***************************************************************************)
OpConstant == 0
OpAdd == 1
OpPop == 2
OpSub == 3
OpMul == 4
OpDiv == 5
OpTrue == 6
OpFalse == 7
OpEqual == 8
OpNotEqual == 9
OpGreaterThan == 10
OpMinus == 11
OpBang == 12
OpJumpNotTruthy == 13
OpJump == 14
OpNull == 15
OpSetGlobal == 16
OpGetGlobal == 17
OpArray == 18
OpHash == 19
OpIndex == 20
\* the opcodes of function calls, locals, builtins and closures
OpCall == 21
OpReturnValue == 22
OpReturn == 23
OpGetLocal == 24
OpSetLocal == 25
OpGetBuiltin == 26
OpClosure == 27
OpGetFree == 28
OpCurrentClosure == 29

\* the rows of code.definitions: the operand widths of an opcode
definitions(op) ==
    IF op \in {OpConstant, OpJumpNotTruthy, OpJump, OpSetGlobal, OpGetGlobal,
               OpArray, OpHash}
    THEN <<2>>
    ELSE <<>>

\* the rows of the opcodes of calls, locals, builtins and closures
callDefinitions(op) ==
    IF op \in {OpCall, OpGetLocal, OpSetLocal, OpGetBuiltin, OpGetFree} THEN <<1>>
    ELSE IF op = OpClosure THEN <<2, 1>>
    ELSE <<>>

\* code.Lookup: is there a row for op, and its operand widths
Lookup(op) ==
    IF op \in OpConstant..OpIndex THEN [ok |-> TRUE, OperandWidths |-> definitions(op)]
    ELSE IF op \in OpCall..OpCurrentClosure
    THEN [ok |-> TRUE, OperandWidths |-> callDefinitions(op)]
    ELSE [ok |-> FALSE, OperandWidths |-> <<>>]

\* binary.BigEndian.PutUint16(b, uint16(o))
\* mutant: the low byte first
PutUint16_LittleEndian(o) == <<o % 256, (o % 65536) \div 256>>

PutUint16(o) == <<(o % 65536) \div 256, o % 256>>

\* b[0] = byte(o)
PutUint8(o) == <<o % 256>>

\* the bytes of the operands of one instruction; an operand that is not
\* given stays zero
RECURSIVE MakeOperands(_, _, _)
MakeOperands(widths, operands, k) ==
    IF k > Len(widths) THEN <<>>
    ELSE LET o == IF k <= Len(operands) THEN operands[k] ELSE 0
         IN  (IF widths[k] = 2 THEN PutUint16(o) ELSE PutUint8(o))
             \o MakeOperands(widths, operands, k + 1)

Make(op, operands) ==
    LET def == Lookup(op)
    IN  IF ~def.ok THEN <<>>
        ELSE <<op>> \o MakeOperands(def.OperandWidths, operands, 1)

\* ins[at], at counted from 0
ByteAt(ins, at) == ins[at + 1]

\* code.ReadUint16(ins[at:])
ReadUint16(ins, at) == ByteAt(ins, at) * 256 + ByteAt(ins, at + 1)

\* int(ins[at]), the one-byte operand
ReadUint8(ins, at) == ByteAt(ins, at)

\* the loop of ReadOperands from the i-th operand on
RECURSIVE readOperandsLoop(_, _, _, _, _)
readOperandsLoop(widths, ins, i, operands, offset) ==
    IF i > Len(widths) THEN [operands |-> operands, offset |-> offset]
    ELSE LET width == widths[i]
             o == CASE width = 2 -> ReadUint16(ins, offset)
                    [] width = 1 -> ReadUint8(ins, offset)
                    [] OTHER -> 0
         IN  readOperandsLoop(widths, ins, i + 1, Append(operands, o), offset + width)

\* the operands decoded from ins and the number of bytes read
ReadOperands(def, ins) == readOperandsLoop(def.OperandWidths, ins, 1, <<>>, 0)

(***************************************************************************)
(* Symbol table (package compiler).  The tables allocated so far are a     *)
(* sequence; a table is named by its position, Outer = 0 is the nil        *)
(* pointer.  A store is the sequence of the symbols defined, one per name. *)
(***************************************************************************)
GlobalScope == "GLOBAL"
LocalScope == "LOCAL"
BuiltinScope == "BUILTIN"
FreeScope == "FREE"
FunctionScope == "FUNCTION"

Symbol(name, scope, idx) == [Name |-> name, Scope |-> scope, Index |-> idx]

NewSymbolTable == [Outer |-> 0, store |-> <<>>, numDefinitions |-> 0, FreeSymbols |-> <<>>]

NewEnclosedSymbolTable(outer) == [NewSymbolTable EXCEPT !.Outer = outer]

HasSymbol(store, name) == \E k \in DOMAIN store : store[k].Name = name

SymbolAt(store, name) == store[CHOOSE k \in DOMAIN store : store[k].Name = name]

\* st.store[symbol.Name] = symbol
StoreSymbol(store, symbol) ==
    IF HasSymbol(store, symbol.Name)
    THEN [k \in DOMAIN store |->
            IF store[k].Name = symbol.Name THEN symbol ELSE store[k]]
    ELSE Append(store, symbol)

\* mutant: the definition counter is not advanced
Define_NoIncrement(tables, t, name) ==
    LET st == tables[t]
        symbol == Symbol(name, IF st.Outer = 0 THEN GlobalScope ELSE LocalScope,
                         st.numDefinitions)
    IN  [symbol |-> symbol,
         tables |-> [tables EXCEPT ![t].store = StoreSymbol(@, symbol)]]

Define(tables, t, name) ==
    LET st == tables[t]
        symbol == Symbol(name, IF st.Outer = 0 THEN GlobalScope ELSE LocalScope,
                         st.numDefinitions)
    IN  [symbol |-> symbol,
         tables |-> [tables EXCEPT ![t].store = StoreSymbol(@, symbol),
                                   ![t].numDefinitions = @ + 1]]

DefineBuiltin(tables, t, idx, name) ==
    LET symbol == Symbol(name, BuiltinScope, idx)
    IN  [symbol |-> symbol,
         tables |-> [tables EXCEPT ![t].store = StoreSymbol(@, symbol)]]

\* mutant: the promoted symbol is not put in the store
DefineFree_NoStore(tables, t, original) ==
    LET symbol == Symbol(original.Name, FreeScope, Len(tables[t].FreeSymbols))
    IN  [symbol |-> symbol,
         tables |-> [tables EXCEPT ![t].FreeSymbols = Append(@, original)]]

\* mutant: the index is the length of FreeSymbols after the append
DefineFree_IndexIsLength(tables, t, original) ==
    LET symbol == Symbol(original.Name, FreeScope, Len(tables[t].FreeSymbols) + 1)
    IN  [symbol |-> symbol,
         tables |-> [tables EXCEPT ![t].FreeSymbols = Append(@, original),
                                   ![t].store = StoreSymbol(@, symbol)]]

\* mutant: a promotion takes a definition index
DefineFree_Counts(tables, t, original) ==
    LET symbol == Symbol(original.Name, FreeScope, Len(tables[t].FreeSymbols))
    IN  [symbol |-> symbol,
         tables |-> [tables EXCEPT ![t].FreeSymbols = Append(@, original),
                                   ![t].store = StoreSymbol(@, symbol),
                                   ![t].numDefinitions = @ + 1]]

DefineFree(tables, t, original) ==
    LET symbol == Symbol(original.Name, FreeScope, Len(tables[t].FreeSymbols))
    IN  [symbol |-> symbol,
         tables |-> [tables EXCEPT ![t].FreeSymbols = Append(@, original),
                                   ![t].store = StoreSymbol(@, symbol)]]

DefineFunctionName(tables, t, name) ==
    LET symbol == Symbol(name, FunctionScope, 0)
    IN  [symbol |-> symbol,
         tables |-> [tables EXCEPT ![t].store = StoreSymbol(@, symbol)]]

\* mutant: a global of an outer table is promoted as well
RECURSIVE Resolve_PromotesGlobals(_, _, _)
Resolve_PromotesGlobals(tables, t, name) ==
    LET st == tables[t]
    IN  IF HasSymbol(st.store, name)
        THEN [symbol |-> SymbolAt(st.store, name), ok |-> TRUE, tables |-> tables]
        ELSE IF st.Outer # 0
        THEN LET r == Resolve_PromotesGlobals(tables, st.Outer, name)
             IN  IF r.ok /\ r.symbol.Scope # BuiltinScope
                 THEN LET d == DefineFree(r.tables, t, r.symbol)
                      IN  [symbol |-> d.symbol, ok |-> TRUE, tables |-> d.tables]
                 ELSE r
        ELSE [symbol |-> Symbol("", "", 0), ok |-> FALSE, tables |-> tables]

RECURSIVE Resolve(_, _, _)
Resolve(tables, t, name) ==
    LET st == tables[t]
    IN  IF HasSymbol(st.store, name)
        THEN [symbol |-> SymbolAt(st.store, name), ok |-> TRUE, tables |-> tables]
        ELSE IF st.Outer # 0
        THEN LET r == Resolve(tables, st.Outer, name)
             IN  IF r.ok /\ r.symbol.Scope # GlobalScope /\ r.symbol.Scope # BuiltinScope
                 THEN LET d == DefineFree(r.tables, t, r.symbol)
                      IN  [symbol |-> d.symbol, ok |-> TRUE, tables |-> d.tables]
                 ELSE r
        ELSE [symbol |-> Symbol("", "", 0), ok |-> FALSE, tables |-> tables]

\* The objects of the VM that Go compares by pointer carry the address at
\* which they were allocated: positive for the objects the compiler put in the
\* constant pool, negative for those allocated while Run executes, 0 for an
\* object under construction.
VMString(at, s) == [kind |-> "STRING", s |-> s, at |-> at]

VMArray(at, elements) == [kind |-> "ARRAY", Elements |-> elements, at |-> at]

VMHash(at, pairs) == [kind |-> "HASH", Pairs |-> pairs, at |-> at]

(***************************************************************************)
(* Compiler (package compiler).  The state of a compiler is                *)
(*   constants, scopes, scopeIndex : the fields of Compiler                *)
(*   tables, symbolTable          : the symbol tables and the current one  *)
(*   err                          : the error Compile returned ("": nil)   *)
(*   closures                     : whether let statements, identifiers    *)
(*       and function literals are compiled by CompileClosures             *)
(*   stack, ret                   : the calls of Compile in progress       *)
(***************************************************************************)
\* a compilation may take 4^CompileFuel steps
CompileFuel == 5

CompiledFunction(instructions, numLocals, numParameters) ==
    [kind |-> "COMPILED_FUNCTION", Instructions |-> instructions,
     NumLocals |-> numLocals, NumParameters |-> numParameters]

EmittedInstruction(op, pos) == [OpCode |-> op, Position |-> pos]

CompilationScope ==
    [instructions |-> <<>>, lastInstruction |-> EmittedInstruction(0, 0),
     previousInstruction |-> EmittedInstruction(0, 0)]

\* object.Builtins, in the order of the table
BuiltinNames == <<"len", "puts", "first", "last", "rest", "push", "">>

RECURSIVE DefineBuiltins(_, _)
DefineBuiltins(tables, k) ==
    IF k > Len(BuiltinNames) THEN tables
    ELSE DefineBuiltins(DefineBuiltin(tables, 1, k - 1, BuiltinNames[k]).tables, k + 1)

CompileFrame(node) ==
    [fn |-> "Compile", pc |-> 0, node |-> node, i |-> 1,
     jumpNotTruthyPos |-> 0, jumpPos |-> 0, name |-> ""]

\* compiler.New(), about to run Compile(program)
NewCompiler(closures, program) ==
    [constants |-> <<>>, tables |-> DefineBuiltins(<<NewSymbolTable>>, 1),
     symbolTable |-> 1, scopes |-> <<CompilationScope>>, scopeIndex |-> 0,
     err |-> "", closures |-> closures,
     stack |-> <<CompileFrame(program)>>, ret |-> ""]

\* Compile returns the error msg, and so does every call of Compile in progress
Fail(c, msg) == [c EXCEPT !.stack = <<>>, !.err = msg]

\* New, then the symbol table and the constants of an earlier compilation
NewWithState(closures, program, tables, constants) ==
    [NewCompiler(closures, program) EXCEPT !.tables = tables, !.symbolTable = 1,
                                           !.constants = constants]

currentInstructions(c) == c.scopes[c.scopeIndex + 1].instructions

\* mutant: the index returned is the length of the pool
addConstant_OffByOne(c, obj) ==
    [c |-> [c EXCEPT !.constants = Append(@, obj)], pos |-> Len(c.constants) + 1]

\* mutant: the object is put in front of the pool
addConstant_Front(c, obj) ==
    [c |-> [c EXCEPT !.constants = <<obj>> \o @], pos |-> 0]

addConstant(c, obj) ==
    [c |-> [c EXCEPT !.constants = Append(@, obj)], pos |-> Len(c.constants)]

addInstruction(c, ins) ==
    [c |-> [c EXCEPT !.scopes[c.scopeIndex + 1].instructions = @ \o ins],
     pos |-> Len(currentInstructions(c))]

setLastInstruction(c, op, pos) ==
    [c EXCEPT !.scopes[c.scopeIndex + 1].previousInstruction =
                    c.scopes[c.scopeIndex + 1].lastInstruction,
              !.scopes[c.scopeIndex + 1].lastInstruction = EmittedInstruction(op, pos)]

emit(c, op, operands) ==
    LET a == addInstruction(c, Make(op, operands))
    IN  [c |-> setLastInstruction(a.c, op, a.pos), pos |-> a.pos]

lastInstructionIs(c, op) ==
    IF Len(currentInstructions(c)) = 0 THEN FALSE
    ELSE c.scopes[c.scopeIndex + 1].lastInstruction.OpCode = op

removeLastPop(c) ==
    LET scope == c.scopes[c.scopeIndex + 1]
    IN  [c EXCEPT !.scopes[c.scopeIndex + 1].instructions =
                        SubSeq(@, 1, scope.lastInstruction.Position),
                  !.scopes[c.scopeIndex + 1].lastInstruction = scope.previousInstruction]

replaceInstruction(c, pos, newInstruction) ==
    [c EXCEPT !.scopes[c.scopeIndex + 1].instructions =
        [k \in DOMAIN @ |->
            IF k - 1 >= pos /\ k - 1 < pos + Len(newInstruction)
            THEN newInstruction[k - pos]
            ELSE @[k]]]

\* mutant: the placeholder operand is left as it is
changeOperand_Unpatched(c, pos, operand) == c

\* mutant: every jump is patched to go back to the start of the instructions
changeOperand_Back(c, pos, operand) ==
    replaceInstruction(c, pos, Make(ByteAt(currentInstructions(c), pos), <<0>>))

changeOperand(c, pos, operand) ==
    replaceInstruction(c, pos, Make(ByteAt(currentInstructions(c), pos), <<operand>>))

enterScope(c) ==
    [c EXCEPT !.scopes = Append(@, CompilationScope),
              !.scopeIndex = @ + 1,
              !.tables = Append(@, NewEnclosedSymbolTable(c.symbolTable)),
              !.symbolTable = Len(c.tables) + 1]

leaveScope(c) ==
    [c |-> [c EXCEPT !.scopes = SubSeq(@, 1, Len(@) - 1),
                     !.scopeIndex = @ - 1,
                     !.symbolTable = c.tables[c.symbolTable].Outer],
     instructions |-> currentInstructions(c)]

\* mutant: the trailing OpPop stays
replaceLastPopWithReturn_Keep(c) == c

replaceLastPopWithReturn(c) ==
    LET lastIns == c.scopes[c.scopeIndex + 1].lastInstruction
        r == replaceInstruction(c, lastIns.Position, Make(OpReturnValue, <<>>))
    IN  [r EXCEPT !.scopes[c.scopeIndex + 1].lastInstruction.OpCode = OpReturnValue]

loadSymbol(c, s) ==
    CASE s.Scope = GlobalScope -> emit(c, OpGetGlobal, <<s.Index>>).c
      [] s.Scope = LocalScope -> emit(c, OpGetLocal, <<s.Index>>).c
      [] s.Scope = BuiltinScope -> emit(c, OpGetBuiltin, <<s.Index>>).c
      [] OTHER -> c

\* c.symbolTable.Define(v.Value) for each parameter from the k-th on
RECURSIVE defineParameters(_, _, _)
\* a < b on the strings that the key expressions of the model's hash literals
\* print as: bytewise order, "(" before the digits before the letters
KeyStrings == <<"(1 + 1)", "1", "2", "true">>

stringLess(a, b) ==
    (CHOOSE k \in DOMAIN KeyStrings : KeyStrings[k] = a)
        < (CHOOSE k \in DOMAIN KeyStrings : KeyStrings[k] = b)

\* sort.Slice's insertion of keys[i] into the sorted keys before it (the
\* algorithm for fewer than 12 elements): it moves left while it is less than
\* its left neighbour
RECURSIVE insertKey(_, _, _)
insertKey(pairs, sorted, k) ==
    IF sorted # <<>>
       /\ stringLess(String(pairs[k].Key), String(pairs[sorted[Len(sorted)]].Key))
    THEN Append(insertKey(pairs, SubSeq(sorted, 1, Len(sorted) - 1), k),
                sorted[Len(sorted)])
    ELSE Append(sorted, k)

\* the keys of a hash literal (as indices of its pairs), collected by a range
\* over the map node.Pairs, which yields them in the order node.Collect, and
\* sorted by their String()
RECURSIVE sortedKeys(_, _)
sortedKeys(node, n) ==
    IF n = 0 THEN <<>>
    ELSE insertKey(node.Pairs, sortedKeys(node, n - 1), node.Collect[n])

defineParameters(c, params, k) ==
    IF k > Len(params) THEN c
    ELSE defineParameters(
            [c EXCEPT !.tables = Define(c.tables, c.symbolTable, params[k]).tables],
            params, k + 1)

\* the infix operators Compile has an opcode for
infixOpcode(operator) ==
    CASE operator = "+" -> OpAdd
      [] operator = "-" -> OpSub
      [] operator = "*" -> OpMul
      [] operator = "/" -> OpDiv
      [] operator = ">" -> OpGreaterThan
      [] operator = "==" -> OpEqual
      [] operator = "!=" -> OpNotEqual

\* the end of the FunctionLiteral case, once the body is compiled
finishFunction(c, params) ==
    LET c1 == IF lastInstructionIs(c, OpPop) THEN replaceLastPopWithReturn(c) ELSE c
        c2 == IF ~lastInstructionIs(c1, OpReturnValue)
              THEN emit(c1, OpReturn, <<>>).c ELSE c1
        numLocals == c2.tables[c2.symbolTable].numDefinitions
        l == leaveScope(c2)
        k == addConstant(l.c, CompiledFunction(l.instructions, numLocals, Len(params)))
    IN  emit(k.c, OpClosure, <<k.pos, 0>>).c

\* one step of the call of Compile that frame f stands for
Compile(c, f) ==
    LET n == f.node
    IN  CASE n.type \in {"Program", "BlockStatement"} ->
                IF f.i > Len(n.Statements) THEN Return(c, "")
                ELSE Call(c, [f EXCEPT !.i = @ + 1], CompileFrame(n.Statements[f.i]))
          [] n.type = "ExpressionStatement" ->
                IF f.pc = 0 THEN Call(c, AtPc(f, 1), CompileFrame(n.Expression))
                ELSE Return(emit(c, OpPop, <<>>).c, "")
          [] n.type = "PrefixExpression" ->
                IF f.pc = 0 THEN Call(c, AtPc(f, 1), CompileFrame(n.Right))
                ELSE IF n.Operator = "!" THEN Return(emit(c, OpBang, <<>>).c, "")
                ELSE IF n.Operator = "-" THEN Return(emit(c, OpMinus, <<>>).c, "")
                ELSE Fail(c, "unsupported prefix operator " \o n.Operator)
          [] n.type = "InfixExpression" ->
                IF n.Operator = "<"
                THEN (CASE f.pc = 0 -> Call(c, AtPc(f, 1), CompileFrame(n.Right))
                        [] f.pc = 1 -> Call(c, AtPc(f, 2), CompileFrame(n.Left))
                        [] f.pc = 2 -> Return(emit(c, OpGreaterThan, <<>>).c, ""))
                ELSE (CASE f.pc = 0 -> Call(c, AtPc(f, 1), CompileFrame(n.Left))
                        [] f.pc = 1 -> Call(c, AtPc(f, 2), CompileFrame(n.Right))
                        [] f.pc = 2 ->
                            IF n.Operator \in {"+", "-", "*", "/", ">", "==", "!="}
                            THEN Return(emit(c, infixOpcode(n.Operator), <<>>).c, "")
                            ELSE Fail(c, "unsupported operator " \o n.Operator))
          [] n.type = "IntegerLiteral" ->
                LET k == addConstant(c, Integer(n.Value))
                IN  Return(emit(k.c, OpConstant, <<k.pos>>).c, "")
          [] n.type = "Boolean" ->
                Return(emit(c, IF n.Value THEN OpTrue ELSE OpFalse, <<>>).c, "")
          [] n.type = "StringLiteral" ->
                LET k == addConstant(c, VMString(Len(c.constants) + 1, n.Value))
                IN  Return(emit(k.c, OpConstant, <<k.pos>>).c, "")
          [] n.type = "IfExpression" ->
                (CASE f.pc = 0 -> Call(c, AtPc(f, 1), CompileFrame(n.Condition))
                  [] f.pc = 1 ->
                        LET e == emit(c, OpJumpNotTruthy, <<9999>>)
                        IN  Call(e.c, [f EXCEPT !.pc = 2, !.jumpNotTruthyPos = e.pos],
                                 CompileFrame(n.Consequence))
                  [] f.pc = 2 ->
                        LET c1 == IF lastInstructionIs(c, OpPop)
                                  THEN removeLastPop(c) ELSE c
                            e == emit(c1, OpJump, <<9999>>)
                            afterConsequencePos == Len(currentInstructions(e.c))
                            c2 == changeOperand(e.c, f.jumpNotTruthyPos, afterConsequencePos)
                        IN  IF n.Alternative = NilNode
                            THEN LET c3 == emit(c2, OpNull, <<>>).c
                                 IN  Return(changeOperand(c3, e.pos,
                                                Len(currentInstructions(c3))), "")
                            ELSE Call(c2, [f EXCEPT !.pc = 3, !.jumpPos = e.pos],
                                      CompileFrame(n.Alternative))
                  [] f.pc = 3 ->
                        LET c1 == IF lastInstructionIs(c, OpPop)
                                  THEN removeLastPop(c) ELSE c
                        IN  Return(changeOperand(c1, f.jumpPos,
                                       Len(currentInstructions(c1))), ""))
          [] n.type = "LetStatement" ->
                IF f.pc = 0 THEN Call(c, AtPc(f, 1), CompileFrame(n.Value))
                ELSE LET d == Define(c.tables, c.symbolTable, n.Name)
                         c1 == [c EXCEPT !.tables = d.tables]
                     IN  IF d.symbol.Scope = GlobalScope
                         THEN Return(emit(c1, OpSetGlobal, <<d.symbol.Index>>).c, "")
                         ELSE Return(emit(c1, OpSetLocal, <<d.symbol.Index>>).c, "")
          [] n.type = "Identifier" ->
                LET r == Resolve(c.tables, c.symbolTable, n.Value)
                IN  IF ~r.ok THEN Fail(c, "identifier not found: " \o n.Value)
                    ELSE Return(loadSymbol([c EXCEPT !.tables = r.tables], r.symbol), "")
          [] n.type = "ArrayLiteral" ->
                IF f.i > Len(n.Elements)
                THEN Return(emit(c, OpArray, <<Len(n.Elements)>>).c, "")
                ELSE Call(c, [f EXCEPT !.i = @ + 1], CompileFrame(n.Elements[f.i]))
          [] n.type = "HashLiteral" ->
                LET keys == sortedKeys(n, Len(n.Pairs))
                IN  IF f.i > Len(keys)
                    THEN Return(emit(c, OpHash, <<Len(n.Pairs) * 2>>).c, "")
                    ELSE IF f.pc = 0
                    THEN Call(c, AtPc(f, 1), CompileFrame(n.Pairs[keys[f.i]].Key))
                    ELSE Call(c, [f EXCEPT !.pc = 0, !.i = @ + 1],
                              CompileFrame(n.Pairs[keys[f.i]].Value))
          [] n.type = "IndexExpression" ->
                (CASE f.pc = 0 -> Call(c, AtPc(f, 1), CompileFrame(n.Left))
                   [] f.pc = 1 -> Call(c, AtPc(f, 2), CompileFrame(n.Index))
                   [] f.pc = 2 -> Return(emit(c, OpIndex, <<>>).c, ""))
          [] n.type = "FunctionLiteral" ->
                IF f.pc = 0
                THEN Call(defineParameters(enterScope(c), n.Parameters, 1),
                          AtPc(f, 1), CompileFrame(n.Body))
                ELSE Return(finishFunction(c, n.Parameters), "")
          [] n.type = "ReturnStatement" ->
                IF f.pc = 0 THEN Call(c, AtPc(f, 1), CompileFrame(n.ReturnValue))
                ELSE Return(emit(c, OpReturnValue, <<>>).c, "")
          [] n.type = "CallExpression" ->
                IF f.pc = 0 THEN Call(c, AtPc(f, 1), CompileFrame(n.Function))
                ELSE IF f.i > Len(n.Arguments)
                THEN Return(emit(c, OpCall, <<Len(n.Arguments)>>).c, "")
                ELSE Call(c, [f EXCEPT !.i = @ + 1], CompileFrame(n.Arguments[f.i]))
          [] OTHER -> Return(c, "")

\* Identifier, by the scope the name resolves to, with free variables and
\* the function's own name
loadSymbolClosures(c, s) ==
    CASE s.Scope = FreeScope -> emit(c, OpGetFree, <<s.Index>>).c
      [] s.Scope = FunctionScope -> emit(c, OpCurrentClosure, <<>>).c
      [] OTHER -> loadSymbol(c, s)

\* load each free symbol of a function in the enclosing scope
RECURSIVE loadFreeSymbols(_, _, _)
loadFreeSymbols(c, free, k) ==
    IF k > Len(free) THEN c
    ELSE loadFreeSymbols(loadSymbolClosures(c, free[k]), free, k + 1)

\* steps 3 to 8 of a function literal
finishClosure(c, params) ==
    LET c1 == IF lastInstructionIs(c, OpPop) THEN replaceLastPopWithReturn(c) ELSE c
        c2 == IF ~lastInstructionIs(c1, OpReturnValue)
              THEN emit(c1, OpReturn, <<>>).c ELSE c1
        freeSymbols == c2.tables[c2.symbolTable].FreeSymbols
        numLocals == c2.tables[c2.symbolTable].numDefinitions
        l == leaveScope(c2)
        c3 == loadFreeSymbols(l.c, freeSymbols, 1)
        k == addConstant(c3, CompiledFunction(l.instructions, numLocals, Len(params)))
    IN  emit(k.c, OpClosure, <<k.pos, Len(freeSymbols)>>).c

\* the let statement, the identifier and the function literal of a compiler
\* with closures; f.name is the name a let statement binds the function to
CompileClosures(c, f) ==
    LET n == f.node
    IN  CASE n.type = "LetStatement" ->
                IF f.pc = 0
                THEN Call(c, AtPc(f, 1),
                          [CompileFrame(n.Value) EXCEPT
                              !.name = IF n.Value.type = "FunctionLiteral"
                                       THEN n.Name ELSE ""])
                ELSE Compile(c, f)
          [] n.type = "Identifier" ->
                LET r == Resolve(c.tables, c.symbolTable, n.Value)
                IN  IF ~r.ok THEN Fail(c, "identifier not found: " \o n.Value)
                    ELSE Return(loadSymbolClosures([c EXCEPT !.tables = r.tables],
                                                   r.symbol), "")
          [] n.type = "FunctionLiteral" ->
                IF f.pc = 0
                THEN LET c1 == enterScope(c)
                         c2 == IF f.name = "" THEN c1
                               ELSE [c1 EXCEPT !.tables =
                                        DefineFunctionName(c1.tables, c1.symbolTable,
                                                           f.name).tables]
                     IN  Call(defineParameters(c2, n.Parameters, 1),
                              AtPc(f, 1), CompileFrame(n.Body))
                ELSE Return(finishClosure(c, n.Parameters), "")

CompilerStep(c) ==
    LET f == Top(c)
    IN  IF c.closures
           /\ f.node.type \in {"LetStatement", "Identifier", "FunctionLiteral"}
        THEN CompileClosures(c, f)
        ELSE Compile(c, f)

CompilerDone(c) == c.stack = <<>>

\* 4^k steps, or fewer when the compiler is done before
RECURSIVE CompilerRun(_, _)
CompilerRun(c, k) ==
    IF k = 0 THEN (IF CompilerDone(c) THEN c ELSE CompilerStep(c))
    ELSE LET a == CompilerRun(c, k - 1)
             b == CompilerRun(a, k - 1)
             d == CompilerRun(b, k - 1)
         IN  IF CompilerDone(a) THEN a
             ELSE IF CompilerDone(b) THEN b
             ELSE IF CompilerDone(d) THEN d
             ELSE CompilerRun(d, k - 1)

\* comp.Compile(program) on a new compiler, and comp.Bytecode()
Bytecode(closures, program) ==
    LET c == CompilerRun(NewCompiler(closures, program), CompileFuel)
    IN  [err |-> c.err, done |-> CompilerDone(c),
         Instructions |-> currentInstructions(c), Constants |-> c.constants]

(***************************************************************************)
(* Virtual machine (package vm).  The state of a VM is                     *)
(*   instructions, constants, stack, sp, globals : the fields of VM        *)
(*   ip      : the loop variable of Run                                    *)
(*   status  : "running", "done" (Run returned nil), "error" (Run returned *)
(*             err) or "panic" (a runtime panic left Run); err the message *)
(* stack and globals hold the slots written so far; a slot that was never  *)
(* written holds the nil interface.                                        *)
(***************************************************************************)
StackSize == 2048
GlobalsSize == 65535

\* slots[k], k counted from 0
SlotGet(slots, k) == IF k + 1 \in DOMAIN slots THEN slots[k + 1] ELSE Nil

\* slots[k] = obj
SlotSet(slots, k, obj) ==
    IF k < Len(slots) THEN [slots EXCEPT ![k + 1] = obj]
    ELSE slots \o [j \in 1..(k - Len(slots)) |-> Nil] \o <<obj>>


NewVM(bc) ==
    [instructions |-> bc.Instructions, constants |-> bc.Constants,
     stack |-> <<>>, sp |-> 0, globals |-> <<>>,
     ip |-> 0, status |-> "running", err |-> "", allocs |-> 0]

\* Run returns the error msg
RunError(m, msg) == [m EXCEPT !.status = "error", !.err = msg]

\* a runtime panic leaves Run
RunPanic(m, msg) == [m EXCEPT !.status = "panic", !.err = msg]

Stopped(m) == m.status # "running"

\* mutant: push without the test for a full stack
push_Unchecked(m, obj) ==
    IF m.sp < 0 THEN RunPanic(m, "index out of range")
    ELSE [m EXCEPT !.stack = SlotSet(@, m.sp, obj), !.sp = @ + 1]

push(m, obj) ==
    IF m.sp >= StackSize THEN RunError(m, "stack overflow")
    ELSE IF m.sp < 0 THEN RunPanic(m, "index out of range")
    ELSE [m EXCEPT !.stack = SlotSet(@, m.sp, obj), !.sp = @ + 1]

pop(m) ==
    IF m.sp - 1 < 0 \/ m.sp - 1 >= StackSize
    THEN [obj |-> Nil, m |-> RunPanic(m, "index out of range")]
    ELSE [obj |-> SlotGet(m.stack, m.sp - 1), m |-> [m EXCEPT !.sp = @ - 1]]

\* push of an object allocated just now
pushNew(m, obj) ==
    push([m EXCEPT !.allocs = @ + 1], [obj EXCEPT !.at = -(m.allocs + 1)])

LastPoppedStackElem(m) == SlotGet(m.stack, m.sp)

vmNativeBoolToBooleanObject(b) == IF b THEN True ELSE False

\* left == right on two interface values: pointer identity.  True, False and
\* Null are singletons; strings, arrays and closures are told apart by their
\* address; every integer the VM pushes is an allocation of its own
vmSameObject(l, r) ==
    IF l.kind # r.kind THEN FALSE
    ELSE CASE l.kind = "BOOLEAN" -> l.b = r.b
           [] l.kind = "NULL" -> TRUE
           [] l.kind = "nil" -> TRUE
           [] l.kind = "CLOSURE" -> l.caddr = r.caddr
           [] l.kind \in {"STRING", "ARRAY", "HASH"} -> l.at = r.at
           [] OTHER -> FALSE

executeBinaryIntegerOperation(m, op, left, right) ==
    CASE op = OpAdd -> push(m, Integer(left.i + right.i))
      [] op = OpSub -> push(m, Integer(left.i - right.i))
      [] op = OpMul -> push(m, Integer(left.i * right.i))
      [] op = OpDiv -> IF right.i = 0 THEN RunPanic(m, "integer divide by zero")
                       ELSE push(m, Integer(Quot(left.i, right.i)))
      [] OTHER -> RunError(m, "unknown operator: " \o ToString(op))

executeBinaryStringOperation(m, op, left, right) ==
    IF op # OpAdd
    THEN RunError(m, "unknown operator: " \o ToString(op)
                     \o " (" \o Type(left) \o " " \o Type(right) \o ")")
    ELSE pushNew(m, VMString(0, left.s \o right.s))

executeBinaryOperation(m, op) ==
    LET r == pop(m)
        l == pop(r.m)
    IN  IF Stopped(r.m) THEN r.m
        ELSE IF Stopped(l.m) THEN l.m
        ELSE IF isNil(l.obj) \/ isNil(r.obj)
        THEN RunPanic(l.m, "nil pointer dereference")
        ELSE IF Type(l.obj) = "INTEGER" /\ Type(r.obj) = "INTEGER"
        THEN executeBinaryIntegerOperation(l.m, op, l.obj, r.obj)
        ELSE IF Type(l.obj) = "STRING" /\ Type(r.obj) = "STRING"
        THEN executeBinaryStringOperation(l.m, op, l.obj, r.obj)
        ELSE RunError(l.m, "unsupported types for binary operation: "
                           \o Type(l.obj) \o " " \o Type(r.obj))

executeIntegerComparison(m, op, left, right) ==
    CASE op = OpEqual -> push(m, vmNativeBoolToBooleanObject(left.i = right.i))
      [] op = OpNotEqual -> push(m, vmNativeBoolToBooleanObject(left.i # right.i))
      [] op = OpGreaterThan -> push(m, vmNativeBoolToBooleanObject(left.i > right.i))
      [] OTHER -> RunError(m, "unknown operator: " \o ToString(op))

executeComparison(m, op) ==
    LET r == pop(m)
        l == pop(r.m)
    IN  IF Stopped(r.m) THEN r.m
        ELSE IF Stopped(l.m) THEN l.m
        ELSE IF isNil(l.obj) \/ isNil(r.obj)
        THEN RunPanic(l.m, "nil pointer dereference")
        ELSE IF Type(l.obj) = "INTEGER" /\ Type(r.obj) = "INTEGER"
        THEN executeIntegerComparison(l.m, op, l.obj, r.obj)
        ELSE IF op = OpEqual
        THEN push(l.m, vmNativeBoolToBooleanObject(vmSameObject(l.obj, r.obj)))
        ELSE IF op = OpNotEqual
        THEN push(l.m, vmNativeBoolToBooleanObject(~vmSameObject(l.obj, r.obj)))
        ELSE RunError(l.m, "unknown operator: " \o ToString(op)
                           \o " (" \o Type(l.obj) \o " " \o Type(r.obj) \o ")")

executeBangOperator(m) ==
    LET p == pop(m)
    IN  IF Stopped(p.m) THEN p.m
        ELSE IF p.obj = True THEN push(p.m, False)
        ELSE IF p.obj = False THEN push(p.m, True)
        ELSE IF p.obj.kind = "NULL" THEN push(p.m, True)
        ELSE push(p.m, False)

executeMinusOperator(m) ==
    LET p == pop(m)
    IN  IF Stopped(p.m) THEN p.m
        ELSE IF isNil(p.obj) THEN RunPanic(p.m, "nil pointer dereference")
        ELSE IF Type(p.obj) # "INTEGER"
        THEN RunError(p.m, "unsupported type for negation: " \o Type(p.obj))
        ELSE push(p.m, Integer(-p.obj.i))

vmIsTruthy(obj) ==
    CASE obj.kind = "BOOLEAN" -> obj.b
      [] obj.kind = "NULL" -> FALSE
      [] OTHER -> TRUE

\* the elements stack[startIndex .. endIndex-1]
buildArray(m, startIndex, endIndex) ==
    VMArray(0, [j \in 1..(endIndex - startIndex) |-> SlotGet(m.stack, startIndex + j - 1)])

\* the ip++ of the loop, after a case that did not leave Run
Continue(m, ip) == IF Stopped(m) THEN m ELSE [m EXCEPT !.ip = ip + 1]

\* one iteration of the loop of Run, or its end
Run(m) ==
    LET ins == m.instructions
        ip == m.ip
    IN  IF ip >= Len(ins) THEN [m EXCEPT !.status = "done"]
        ELSE
        LET op == ByteAt(ins, ip)
        IN  CASE op = OpConstant ->
                    LET constIndex == ReadUint16(ins, ip + 1)
                    IN  IF constIndex >= Len(m.constants)
                        THEN RunPanic(m, "index out of range")
                        ELSE Continue(push(m, m.constants[constIndex + 1]), ip + 2)
              [] op \in {OpAdd, OpSub, OpMul, OpDiv} ->
                    Continue(executeBinaryOperation(m, op), ip)
              [] op = OpPop -> Continue(pop(m).m, ip)
              [] op = OpTrue -> Continue(push(m, True), ip)
              [] op = OpFalse -> Continue(push(m, False), ip)
              [] op \in {OpEqual, OpNotEqual, OpGreaterThan} ->
                    Continue(executeComparison(m, op), ip)
              [] op = OpBang -> Continue(executeBangOperator(m), ip)
              [] op = OpMinus -> Continue(executeMinusOperator(m), ip)
              [] op = OpJump ->
                    LET pos == ReadUint16(ins, ip + 1)
                    IN  Continue(m, (pos + 65535) % 65536)
              [] op = OpJumpNotTruthy ->
                    LET pos == ReadUint16(ins, ip + 1)
                        p == pop(m)
                    IN  IF Stopped(p.m) THEN p.m
                        ELSE IF ~vmIsTruthy(p.obj)
                        THEN Continue(p.m, (pos + 65535) % 65536)
                        ELSE Continue(p.m, ip + 2)
              [] op = OpNull -> Continue(push(m, Null), ip)
              [] op = OpSetGlobal ->
                    LET globalIndex == ReadUint16(ins, ip + 1)
                        p == pop(m)
                    IN  IF Stopped(p.m) THEN p.m
                        ELSE IF globalIndex >= GlobalsSize
                        THEN RunPanic(p.m, "index out of range")
                        ELSE Continue([p.m EXCEPT !.globals =
                                          SlotSet(@, globalIndex, p.obj)], ip + 2)
              [] op = OpGetGlobal ->
                    LET globalIndex == ReadUint16(ins, ip + 1)
                    IN  IF globalIndex >= GlobalsSize
                        THEN RunPanic(m, "index out of range")
                        ELSE Continue(push(m, SlotGet(m.globals, globalIndex)), ip + 2)
              [] op = OpArray ->
                    LET arrLen == ReadUint16(ins, ip + 1)
                    IN  IF m.sp - arrLen < 0 THEN RunPanic(m, "index out of range")
                        ELSE Continue(pushNew([m EXCEPT !.sp = m.sp - arrLen],
                                           buildArray(m, m.sp - arrLen, m.sp)),
                                      ip + 2)
              [] OTHER -> RunError(m, "unknown opcode: " \o ToString(op))

(***************************************************************************)
(* The VM with call frames.  It adds to the state of the VM                *)
(*   frames  : the call frames [cl, ip, basePointer, fid], the current one *)
(*             last; fid numbers the frames in the order of their calls    *)
(*   next    : the address of the next closure                             *)
(*   created : for the closure at each address, the values on the stack    *)
(*             that OpClosure took and the frame that executed it          *)
(*   log     : the history of OpCall and OpGetFree (observation only)      *)
(*   out     : the lines written by puts                                   *)
(***************************************************************************)
MaxFrames == 1024

Closure(a, fn, free) == [kind |-> "CLOSURE", caddr |-> a, Fn |-> fn, Free |-> free]

NewFrame(cl, basePointer, fid) ==
    [cl |-> cl, ip |-> 0, basePointer |-> basePointer, fid |-> fid]

\* the VM on the main frame: a closure of the program's instructions
NewFramesVM(bc) ==
    [instructions |-> <<>>, constants |-> bc.Constants,
     stack |-> <<>>, sp |-> 0, globals |-> <<>>,
     ip |-> 0, status |-> "running", err |-> "", allocs |-> 0,
     frames |-> <<NewFrame(Closure(0, CompiledFunction(bc.Instructions, 0, 0),
                                   <<>>), 0, 0)>>,
     nfid |-> 1, next |-> 1, created |-> <<>>, log |-> <<>>, out |-> <<>>]

currentFrame(m) == m.frames[Len(m.frames)]

\* the current frame continues at ip
SetIp(m, ip) == [m EXCEPT !.frames[Len(m.frames)].ip = ip]

\* the builtins of object.Builtins on the objects of the VM (what puts prints
\* is not kept); the backquotes of the Go messages are written as single quotes
vmBuiltin(name, args) ==
    LET one == "wrong number of arguments. got=" \o ToString(Len(args)) \o ", want=1"
        two == "wrong number of arguments. got=" \o ToString(Len(args)) \o ", want=2"
        mustBe == "argument to '" \o name \o "' must be Array, got "
    IN  CASE name = "len" ->
                IF Len(args) # 1 THEN Error(one)
                ELSE IF args[1].kind = "ARRAY" THEN Integer(Len(args[1].Elements))
                ELSE IF args[1].kind = "STRING" THEN Integer(Len(args[1].s))
                ELSE Error("argument to 'len' not supported, got " \o Type(args[1]))
          [] name = "puts" -> Nil
          [] name = "first" ->
                IF Len(args) # 1 THEN Error(one)
                ELSE IF args[1].kind # "ARRAY" THEN Error(mustBe \o Type(args[1]))
                ELSE IF Len(args[1].Elements) > 0 THEN args[1].Elements[1]
                ELSE Nil
          [] name = "last" ->
                IF Len(args) # 1 THEN Error(one)
                ELSE IF args[1].kind # "ARRAY" THEN Error(mustBe \o Type(args[1]))
                ELSE IF Len(args[1].Elements) > 0
                THEN args[1].Elements[Len(args[1].Elements)]
                ELSE Nil
          [] name = "rest" ->
                IF Len(args) # 1 THEN Error(one)
                ELSE IF args[1].kind # "ARRAY" THEN Error(mustBe \o Type(args[1]))
                ELSE IF Len(args[1].Elements) > 0
                THEN VMArray(0, Tail(args[1].Elements))
                ELSE Nil
          [] name = "push" ->
                IF Len(args) # 2 THEN Error(two)
                ELSE IF args[1].kind # "ARRAY" THEN Error(mustBe \o Type(args[1]))
                ELSE VMArray(0, Append(args[1].Elements, args[2]))
          [] OTHER -> Panic("nil function")

\* mutant: the new frame's locals begin above the arguments
callClosure_BaseAtSp(m, cl, numArgs) ==
    IF numArgs # cl.Fn.NumParameters
    THEN RunError(m, "wrong number of arguments: want="
                     \o ToString(cl.Fn.NumParameters) \o ", got=" \o ToString(numArgs))
    ELSE IF Len(m.frames) >= MaxFrames THEN RunPanic(m, "index out of range")
    ELSE [m EXCEPT !.frames = Append(@, NewFrame(cl, m.sp, m.nfid)),
                   !.nfid = @ + 1,
                   !.sp = m.sp + cl.Fn.NumLocals,
                   !.log = Append(@, [ev |-> "call", caddr |-> cl.caddr,
                                      fid |-> m.nfid, i |-> numArgs, val |-> Nil,
                                      creatorLive |-> TRUE, reused |-> FALSE,
                                      sp |-> m.sp, depth |-> Len(m.frames),
                                      below |-> [j \in 1..(m.sp - numArgs - 1) |->
                                                    SlotGet(m.stack, j - 1)]])]

\* OpCall on a closure: the arity check and the new frame
callClosure(m, cl, numArgs) ==
    IF numArgs # cl.Fn.NumParameters
    THEN RunError(m, "wrong number of arguments: want="
                     \o ToString(cl.Fn.NumParameters) \o ", got=" \o ToString(numArgs))
    ELSE IF Len(m.frames) >= MaxFrames THEN RunPanic(m, "index out of range")
    ELSE [m EXCEPT !.frames = Append(@, NewFrame(cl, m.sp - numArgs, m.nfid)),
                   !.nfid = @ + 1,
                   !.sp = m.sp - numArgs + cl.Fn.NumLocals,
                   !.log = Append(@, [ev |-> "call", caddr |-> cl.caddr,
                                      fid |-> m.nfid, i |-> numArgs, val |-> Nil,
                                      creatorLive |-> TRUE, reused |-> FALSE,
                                      sp |-> m.sp, depth |-> Len(m.frames),
                                      below |-> [j \in 1..(m.sp - numArgs - 1) |->
                                                    SlotGet(m.stack, j - 1)]])]

\* fmt.Println(arg.Inspect()) for each argument of puts, in their order
putsLines(args) ==
    [j \in DOMAIN args |->
        IF args[j].kind \in {"INTEGER", "BOOLEAN", "NULL", "STRING"}
        THEN Inspect(<<>>, args[j])
        ELSE args[j].kind]

\* OpCall on a builtin: the call, and its result in place of callee and arguments
callBuiltin(m, fn, numArgs) ==
    LET args == [j \in 1..numArgs |-> SlotGet(m.stack, m.sp - numArgs + j - 1)]
        result == vmBuiltin(fn.name, args)
        m1 == [m EXCEPT !.sp = m.sp - numArgs - 1,
                        !.out = IF fn.name = "puts" THEN @ \o putsLines(args) ELSE @]
    IN  IF isPanic(result) THEN RunPanic(m, result.Message)
        ELSE IF isNil(result) THEN push(m1, Null)
        ELSE IF result.kind = "ARRAY" /\ result.at = 0 THEN pushNew(m1, result)
        ELSE push(m1, result)

executeCall(m, numArgs) ==
    IF m.sp - 1 - numArgs < 0 THEN RunPanic(m, "index out of range")
    ELSE LET callee == SlotGet(m.stack, m.sp - 1 - numArgs)
         IN  CASE callee.kind = "CLOSURE" -> callClosure(m, callee, numArgs)
               [] callee.kind = "BUILTIN" -> callBuiltin(m, callee, numArgs)
               [] callee.kind = "nil" -> RunPanic(m, "nil pointer dereference")
               [] OTHER -> RunError(m, "calling " \o Type(callee) \o " is not supported")

\* mutant: the callee stays on the stack below the return value
returnFromFrame_KeepCallee(m, val) ==
    LET frame == currentFrame(m)
    IN  push([m EXCEPT !.frames = SubSeq(@, 1, Len(@) - 1),
                       !.sp = frame.basePointer],
             val)

\* OpReturnValue and OpReturn: leave the current frame with val
returnFromFrame(m, val) ==
    LET frame == currentFrame(m)
    IN  push([m EXCEPT !.frames = SubSeq(@, 1, Len(@) - 1),
                       !.sp = frame.basePointer - 1],
             val)

\* do the locals of the current frame lie in slots of the locals of the frame
\* that created a closure
Overlaps(m, created) ==
    LET fr == currentFrame(m)
    IN  /\ fr.basePointer < created.base + created.locals
        /\ created.base < fr.basePointer + fr.cl.Fn.NumLocals

\* the freeCount values on top of the stack
captureFree(m, freeCount) ==
    [j \in 1..freeCount |-> SlotGet(m.stack, m.sp - freeCount + j - 1)]

pushClosure(m, constIndex, freeCount) ==
    IF constIndex >= Len(m.constants) THEN RunPanic(m, "index out of range")
    ELSE LET function == m.constants[constIndex + 1]
             fr == currentFrame(m)
         IN  IF function.kind # "COMPILED_FUNCTION"
             THEN RunError(m, "not a function: " \o Type(function))
             ELSE IF m.sp - freeCount < 0 THEN RunPanic(m, "index out of range")
             ELSE push([m EXCEPT
                          !.sp = m.sp - freeCount,
                          !.next = @ + 1,
                          !.created = Append(@,
                              [vals |-> [j \in 1..freeCount |->
                                           SlotGet(m.stack, m.sp - freeCount + j - 1)],
                               fid |-> fr.fid, base |-> fr.basePointer,
                               locals |-> fr.cl.Fn.NumLocals])],
                       Closure(m.next, function, captureFree(m, freeCount)))

\* OpGetFree: the value pushed, and what the VM is in at that moment
getFree(m, freeIndex) ==
    LET cl == currentFrame(m).cl
    IN  IF freeIndex >= Len(cl.Free) THEN RunPanic(m, "index out of range")
        ELSE LET p == push(m, cl.Free[freeIndex + 1])
             IN  [p EXCEPT !.log = Append(@,
                    [ev |-> "getfree", caddr |-> cl.caddr, fid |-> currentFrame(m).fid,
                     i |-> freeIndex, val |-> SlotGet(p.stack, p.sp - 1),
                     creatorLive |-> \E k \in DOMAIN m.frames :
                                        m.frames[k].fid = m.created[cl.caddr].fid,
                     reused |-> Overlaps(m, m.created[cl.caddr])])]

\* OpHash: the slots stack[startIndex .. endIndex-1] as alternating keys and
\* values, in that order
RECURSIVE buildHash(_, _, _, _)
buildHash(m, at, endIndex, pairs) ==
    IF at >= endIndex THEN [ok |-> TRUE, Pairs |-> pairs, kind |-> ""]
    ELSE LET key == SlotGet(m.stack, at)
             value == SlotGet(m.stack, at + 1)
         IN  IF ~Hashable(key) THEN [ok |-> FALSE, Pairs |-> pairs, kind |-> Type(key)]
             ELSE buildHash(m, at + 2, endIndex, SetPair(pairs, HashKey(key), key, value))

executeHash(m, numElements) ==
    IF m.sp - numElements < 0 THEN RunPanic(m, "index out of range")
    ELSE LET h == buildHash(m, m.sp - numElements, m.sp, <<>>)
         IN  IF ~h.ok THEN RunError(m, "unusable as hash key: " \o h.kind)
             ELSE pushNew([m EXCEPT !.sp = m.sp - numElements], VMHash(0, h.Pairs))

\* OpIndex
executeIndexExpression(m) ==
    LET i == pop(m)
        l == pop(i.m)
        left == l.obj
        idx == i.obj
    IN  IF Stopped(l.m) THEN l.m
        ELSE IF isNil(left) \/ isNil(idx) THEN RunPanic(m, "nil pointer dereference")
        ELSE IF left.kind = "ARRAY" /\ idx.kind = "INTEGER"
        THEN IF idx.i < 0 \/ idx.i > Len(left.Elements) - 1 THEN push(l.m, Null)
             ELSE push(l.m, left.Elements[idx.i + 1])
        ELSE IF left.kind = "HASH" /\ Hashable(idx)
        THEN IF ~HasPair(left.Pairs, HashKey(idx)) THEN push(l.m, Null)
             ELSE push(l.m, PairAt(left.Pairs, HashKey(idx)).Value)
        ELSE RunError(m, "index operator not supported: " \o Type(left))

\* one iteration of the dispatch loop on the current frame, or its end
RunFrames(m) ==
    LET fr == currentFrame(m)
        ins == fr.cl.Fn.Instructions
        ip == fr.ip
    IN  IF ip >= Len(ins) THEN [m EXCEPT !.status = "done"]
        ELSE
        LET op == ByteAt(ins, ip)
        IN  CASE op = OpCall ->
                    executeCall(SetIp(m, ip + 2), ReadUint8(ins, ip + 1))
              [] op = OpReturnValue ->
                    LET p == pop(m)
                    IN  IF Stopped(p.m) THEN p.m ELSE returnFromFrame(p.m, p.obj)
              [] op = OpReturn -> returnFromFrame(m, Null)
              [] op = OpSetLocal ->
                    LET p == pop(SetIp(m, ip + 2))
                    IN  IF Stopped(p.m) THEN p.m
                        ELSE [p.m EXCEPT !.stack =
                                SlotSet(@, fr.basePointer + ReadUint8(ins, ip + 1), p.obj)]
              [] op = OpGetLocal ->
                    push(SetIp(m, ip + 2),
                         SlotGet(m.stack, fr.basePointer + ReadUint8(ins, ip + 1)))
              [] op = OpGetBuiltin ->
                    LET builtinIndex == ReadUint8(ins, ip + 1)
                    IN  IF builtinIndex >= Len(BuiltinNames)
                        THEN RunPanic(m, "index out of range")
                        ELSE push(SetIp(m, ip + 2), Builtin(BuiltinNames[builtinIndex + 1]))
              [] op = OpClosure ->
                    pushClosure(SetIp(m, ip + 4), ReadUint16(ins, ip + 1),
                                ReadUint8(ins, ip + 3))
              [] op = OpGetFree ->
                    getFree(SetIp(m, ip + 2), ReadUint8(ins, ip + 1))
              [] op = OpCurrentClosure -> push(SetIp(m, ip + 1), fr.cl)
              [] op = OpHash -> executeHash(SetIp(m, ip + 3), ReadUint16(ins, ip + 1))
              [] op = OpIndex -> executeIndexExpression(SetIp(m, ip + 1))
              [] OTHER ->
                    LET r == Run([m EXCEPT !.instructions = ins, !.ip = ip])
                    IN  [r EXCEPT !.frames[Len(m.frames)].ip = r.ip,
                                  !.instructions = <<>>, !.ip = 0]

(***************************************************************************)
(* Parser driver: lexemes in, ParseProgram, Program.String() out           *)
(***************************************************************************)
MaxOps == 3
MaxDecoratedOps == 2

None == [none |-> TRUE]

BinOps == {"+", "-", "*", "/", "<", ">", "==", "!="}

OperandNames == <<"a", "b", "c", "d", "e", "f">>

\* how one operand of an operator chain is written
Decorations == {"neg", "bang", "bangneg", "group", "index", "call", "negindex", "negcall"}

\* operator chains  x1 op1 x2 ... opn x(n+1),  plain or with operand `at` decorated
ChainInputs ==
    {[kind |-> "chain", ops |-> o, dec |-> "none", at |-> 1] :
        o \in UNION {[1..n -> BinOps] : n \in 1..MaxOps}}
    \cup
    {x \in [kind : {"chain"}, ops : UNION {[1..n -> BinOps] : n \in 1..MaxDecoratedOps},
            dec : Decorations, at : 1..(MaxDecoratedOps + 1)] :
        x.at <= Len(x.ops) + (IF x.dec = "group" THEN 0 ELSE 1)}

\* the lexemes of operand i of chain x (a grouped operand swallows op i and operand i+1)
OperandLexemes(x, i) ==
    LET n == OperandNames[i]
    IN  IF x.at # i \/ x.dec = "none" THEN <<n>>
        ELSE CASE x.dec = "neg" -> <<"-", n>>
               [] x.dec = "bang" -> <<"!", n>>
               [] x.dec = "bangneg" -> <<"!", "-", n>>
               [] x.dec = "group" -> <<"(", n, x.ops[i], OperandNames[i + 1], ")">>
               [] x.dec = "index" -> <<n, "[", "1", "*", "2", "]">>
               [] x.dec = "call" -> <<n, "(", "1", "+", "2", ",", "3", ")">>
               [] x.dec = "negindex" -> <<"-", n, "[", "1", "]">>
               [] x.dec = "negcall" -> <<"-", n, "(", ")">>

\* operand i+1 and operator i are part of the group at i
InGroup(x, i) == x.dec = "group" /\ x.at = i

RECURSIVE ChainLexemes(_, _)
ChainLexemes(x, i) ==
    IF i > Len(x.ops) + 1 THEN <<>>
    ELSE IF i > 1 /\ InGroup(x, i - 1) THEN ChainLexemes(x, i + 1)
    ELSE (IF i > 1 THEN <<x.ops[i - 1]>> ELSE <<>>)
         \o OperandLexemes(x, i) \o ChainLexemes(x, i + 1)

(***************************************************************************)
(* Programs for the evaluator                                              *)
(***************************************************************************)
MaxIfDepth == 2
MaxArrayLen == 3
MaxPushes == 3

\* let g = fn(p) { p; };
Prelude == <<"let", "g", "=", "fn", "(", "p", ")", "{", "p", ";", "}", ";">>

\* inner wrapped in d if-blocks, each followed inside its block by the statement 6;
RECURSIVE NestedIf(_, _)
NestedIf(d, inner) ==
    IF d = 0 THEN inner
    ELSE <<"if", "(", "true", ")", "{">> \o NestedIf(d - 1, inner) \o <<"6", ";", "}">>

\* expr placed as: a statement, a let value, an operand, an argument, a returned
\* value, an array element, a condition, an index
Contexts ==
    {"stmt", "let", "left", "right", "arg", "return", "element", "condition", "bang",
     "index"}

InContext(ctx, expr) ==
    CASE ctx = "stmt" -> expr \o <<";">>
      [] ctx = "let" -> <<"let", "x", "=">> \o expr \o <<";">>
      [] ctx = "left" -> expr \o <<"+", "k", ";">>
      [] ctx = "right" -> <<"k", "+">> \o expr \o <<";">>
      [] ctx = "arg" -> <<"g", "(">> \o expr \o <<",", "k", ")", ";">>
      [] ctx = "return" -> <<"return">> \o expr \o <<";">>
      [] ctx = "element" -> <<"[">> \o expr \o <<",", "k", "]", ";">>
      [] ctx = "condition" -> <<"if", "(">> \o expr \o <<")", "{", "k", ";", "}", ";">>
      [] ctx = "bang" -> <<"!">> \o expr \o <<";">>
      [] ctx = "index" -> <<"[", "k", "]", "[">> \o expr \o <<"]", ";">>

\* the carrier statement followed by 9; either at top level or as the body of f,
\* which the program calls before its last statement 7;
Placed(where, carrier) ==
    IF where = "program"
    THEN Prelude \o <<"let", "k", "=", "2", ";">> \o carrier \o <<"9", ";">>
    ELSE Prelude \o <<"let", "k", "=", "2", ";">>
         \o <<"let", "f", "=", "fn", "(", ")", "{">> \o carrier \o <<"9", ";", "}", ";">>
         \o <<"f", "(", ")", ";", "7", ";">>

\* ---- a return statement inside nested if-blocks ----
RetInputs ==
    [kind : {"ret"}, ctx : Contexts, depth : 1..MaxIfDepth, taken : BOOLEAN,
     where : {"program", "function"}, value : {"1", "4"}, bv : BuiltinVersions]

ReturnCore(x) ==
    NestedIf(x.depth - 1,
             <<"if", "(", IF x.taken THEN "true" ELSE "false", ")", "{",
               "5", ";", "return", x.value, ";", "8", ";", "}">>)

RetLexemes(x) == Placed(x.where, InContext(x.ctx, ReturnCore(x)))

\* ---- an erroneous expression ----
ErrExprs == {"minusBool", "mismatch", "unknownOp", "ident", "notFn", "lenInt", "indexInt"}

ErrExpr(e) ==
    CASE e = "minusBool" -> <<"(", "-", "true", ")">>
      [] e = "mismatch" -> <<"(", "1", "+", "true", ")">>
      [] e = "unknownOp" -> <<"(", "true", "+", "false", ")">>
      [] e = "ident" -> <<"y">>
      [] e = "notFn" -> <<"1", "(", "2", ")">>
      [] e = "lenInt" -> <<"len", "(", "1", ")">>
      [] e = "indexInt" -> <<"1", "[", "0", "]">>

ErrMessage(e) ==
    CASE e = "minusBool" -> "unsupported operator: -BOOLEAN"
      [] e = "mismatch" -> "type mismatch: INTEGER + BOOLEAN"
      [] e = "unknownOp" -> "unsupported operator: BOOLEAN + BOOLEAN"
      [] e = "ident" -> "identifier not found: y"
      [] e = "notFn" -> "not a function"
      [] e = "lenInt" -> "argument to 'len' not supported. got=INTEGER"
      [] e = "indexInt" -> "index operator not supported"

ErrInputs ==
    [kind : {"err"}, e : ErrExprs, ctx : Contexts, where : {"program", "function"},
     bv : BuiltinVersions]

ErrLexemes(x) == Placed(x.where, InContext(x.ctx, ErrExpr(x.e)))

\* ---- pushes on one array ----
PushProbes == {"len", "lenOfResult", "lastOfResult", "sameArray"}

PushInputs ==
    [kind : {"push"}, n : 0..MaxArrayLen, k : 1..MaxPushes, probe : PushProbes,
     bv : BuiltinVersions]

RECURSIVE ElementList(_, _)
ElementList(i, n) ==
    IF i > n THEN <<>>
    ELSE <<ToString(i)>> \o (IF i < n THEN <<",">> ELSE <<>>) \o ElementList(i + 1, n)

RECURSIVE Repeat(_, _)
Repeat(k, ws) == IF k = 0 THEN <<>> ELSE ws \o Repeat(k - 1, ws)

PushLexemes(x) ==
    <<"let", "a", "=", "[">> \o ElementList(1, x.n) \o <<"]", ";">>
    \o Repeat(x.k, <<"push", "(", "a", ",", "4", ")", ";">>)
    \o CASE x.probe = "len" -> <<"len", "(", "a", ")", ";">>
         [] x.probe = "lenOfResult" -> <<"len", "(", "push", "(", "a", ",", "4", ")", ")", ";">>
         [] x.probe = "lastOfResult" -> <<"last", "(", "push", "(", "a", ",", "7", ")", ")", ";">>
         [] x.probe = "sameArray" -> <<"push", "(", "a", ",", "4", ")", "==", "a", ";">>

\* ---- programs for the compiler and the VM ----
MaxInt == 2
MaxCount == 2
MaxValue == 2
MaxParams == 2
MaxArgs == 3

\* the operands of the programs: integer and boolean literals and the
\* identifier x, which every program binds first
Atoms == {ToString(k) : k \in 1..MaxInt} \cup {"true", "false", "x"}

InfixOps == {"+", "-", "*", "/", "<", ">", "==", "!="}

VMInput(form, op, a, b, c) ==
    [kind |-> "vm", bv |-> "v2", cc |-> FALSE, form |-> form, op |-> op,
     a |-> a, b |-> b, c |-> c]

VMInputs ==
    {VMInput("prefix", op, a, "1", "1") : op \in {"!", "-"}, a \in Atoms}
    \cup {VMInput("infix", op, a, b, "1") : op \in InfixOps, a \in Atoms, b \in Atoms}
    \cup {VMInput("if", "+", a, b, "1") : a \in Atoms, b \in Atoms}
    \cup {VMInput("ifempty", "+", a, "1", "1") : a \in Atoms}
    \cup UNION {{VMInput(form, "+", a, b, c) : a \in Atoms, b \in Atoms, c \in Atoms} :
                    form \in {"ifelse", "iflet"}}
    \cup {VMInput("let", op, a, b, "1") : op \in {"+", "=="}, a \in Atoms, b \in Atoms}
    \cup {VMInput("cond", op, a, b, "1") :
            op \in {"<", ">", "==", "!="}, a \in Atoms, b \in Atoms}

VMLexemes(x) ==
    <<"let", "x", "=", "3", ";">>
    \o CASE x.form = "prefix" -> <<x.op, x.a, ";">>
         [] x.form = "infix" -> <<x.a, x.op, x.b, ";">>
         [] x.form = "if" -> <<"if", "(", x.a, ")", "{", x.b, "}", ";">>
         [] x.form = "ifempty" -> <<"if", "(", x.a, ")", "{", "}", ";">>
         [] x.form = "ifelse" ->
                <<"if", "(", x.a, ")", "{", x.b, "}", "else", "{", x.c, "}", ";">>
         [] x.form = "iflet" ->
                <<"if", "(", x.a, ")", "{", "let", "y", "=", x.b, ";", "}", ";", x.c, ";">>
         [] x.form = "let" -> <<"let", "y", "=", x.a, x.op, x.b, ";", "y", ";">>
         [] x.form = "cond" ->
                <<"if", "(", x.a, x.op, x.b, ")", "{", "1", "}", "else", "{", "2", "}", ";">>

\* a function bound by let that calls itself, at top level or inside the body
\* of another function, and a call of it
RecInputs ==
    {[kind |-> "rec", bv |-> "v2", cc |-> TRUE, where |-> w, n |-> n] :
        w \in {"top", "nested"}, n \in 0..MaxCount}

CountDown ==
    <<"let", "countDown", "=", "fn", "(", "x", ")", "{",
      "if", "(", "x", "==", "0", ")", "{", "return", "0", ";", "}",
      "else", "{", "countDown", "(", "x", "-", "1", ")", ";", "}", "}", ";">>

RecLexemes(x) ==
    IF x.where = "top"
    THEN CountDown \o <<"countDown", "(", ToString(x.n), ")", ";">>
    ELSE <<"let", "wrapper", "=", "fn", "(", ")", "{">> \o CountDown
         \o <<"countDown", "(", ToString(x.n), ")", ";", "}", ";",
              "wrapper", "(", ")", ";">>

\* functions that return closures over their parameters and locals
ClosureTemplates ==
    {"newClosure", "newAdder", "local", "levels", "global", "oneTwo", "twoCalls"}

ClosureInputs ==
    {[kind |-> "clo", bv |-> "v2", cc |-> TRUE, tpl |-> t, v1 |-> v1, v2 |-> v2, v3 |-> v3] :
        t \in ClosureTemplates, v1 \in 1..MaxValue, v2 \in 1..MaxValue, v3 \in 1..MaxValue}

ClosureLexemes(x) ==
    LET v1 == ToString(x.v1)
        v2 == ToString(x.v2)
        v3 == ToString(x.v3)
    IN  CASE x.tpl = "newClosure" ->
                <<"let", "newClosure", "=", "fn", "(", "a", ")", "{",
                  "fn", "(", ")", "{", "a", ";", "}", ";", "}", ";",
                  "let", "closure", "=", "newClosure", "(", v1, ")", ";",
                  "closure", "(", ")", ";">>
          [] x.tpl = "newAdder" ->
                <<"let", "newAdder", "=", "fn", "(", "a", ",", "b", ")", "{",
                  "fn", "(", "c", ")", "{", "a", "+", "b", "+", "c", "}", ";", "}", ";",
                  "let", "adder", "=", "newAdder", "(", v1, ",", v2, ")", ";",
                  "adder", "(", v3, ")", ";">>
          [] x.tpl = "local" ->
                <<"let", "newAdder", "=", "fn", "(", "a", ",", "b", ")", "{",
                  "let", "c", "=", "a", "+", "b", ";",
                  "fn", "(", "d", ")", "{", "c", "+", "d", "}", ";", "}", ";",
                  "let", "adder", "=", "newAdder", "(", v1, ",", v2, ")", ";",
                  "adder", "(", v3, ")", ";">>
          [] x.tpl = "levels" ->
                <<"let", "newAdderOuter", "=", "fn", "(", "a", ",", "b", ")", "{",
                  "let", "c", "=", "a", "+", "b", ";",
                  "fn", "(", "d", ")", "{", "let", "e", "=", "d", "+", "c", ";",
                  "fn", "(", "f", ")", "{", "e", "+", "f", ";", "}", ";", "}", ";", "}", ";",
                  "let", "newAdderInner", "=", "newAdderOuter", "(", v1, ",", v2, ")", ";",
                  "let", "adder", "=", "newAdderInner", "(", v3, ")", ";",
                  "adder", "(", "8", ")", ";">>
          [] x.tpl = "global" ->
                <<"let", "a", "=", "1", ";",
                  "let", "newAdderOuter", "=", "fn", "(", "b", ")", "{",
                  "fn", "(", "c", ")", "{",
                  "fn", "(", "d", ")", "{", "a", "+", "b", "+", "c", "+", "d", "}", ";",
                  "}", ";", "}", ";",
                  "let", "newAdderInner", "=", "newAdderOuter", "(", v1, ")", ";",
                  "let", "adder", "=", "newAdderInner", "(", v2, ")", ";",
                  "adder", "(", v3, ")", ";">>
          [] x.tpl = "oneTwo" ->
                <<"let", "newClosure", "=", "fn", "(", "a", ",", "b", ")", "{",
                  "let", "one", "=", "fn", "(", ")", "{", "a", ";", "}", ";",
                  "let", "two", "=", "fn", "(", ")", "{", "b", ";", "}", ";",
                  "fn", "(", ")", "{", "one", "(", ")", "-", "two", "(", ")", ";", "}", ";",
                  "}", ";",
                  "let", "closure", "=", "newClosure", "(", v1, ",", v2, ")", ";",
                  "closure", "(", ")", ";">>
          [] x.tpl = "twoCalls" ->
                <<"let", "newAdder", "=", "fn", "(", "a", ")", "{",
                  "fn", "(", "c", ")", "{", "a", "+", "c", "}", ";", "}", ";",
                  "let", "p", "=", "newAdder", "(", v1, ")", ";",
                  "let", "q", "=", "newAdder", "(", v2, ")", ";",
                  "p", "(", v3, ")", "-", "q", "(", "0", ")", ";">>

\* a call with n arguments of a function of p parameters
ArityInputs ==
    {[kind |-> "arity", bv |-> "v2", cc |-> cc, form |-> form, p |-> p, n |-> n] :
        cc \in BOOLEAN, form \in {"literal", "let", "inner"},
        p \in 0..MaxParams, n \in 0..MaxArgs}

ParamNames == <<"a", "b", "c", "d">>

RECURSIVE Separated(_, _)
Separated(ws, sep) ==
    IF Len(ws) = 0 THEN <<>>
    ELSE IF Len(ws) = 1 THEN ws
    ELSE <<ws[1], sep>> \o Separated(Tail(ws), sep)

ArityFunction(p) ==
    <<"fn", "(">> \o Separated(SubSeq(ParamNames, 1, p), ",") \o <<")", "{">>
    \o (IF p = 0 THEN <<"1">> ELSE Separated(SubSeq(ParamNames, 1, p), "+"))
    \o <<";", "}">>

ArityArguments(n) == <<"(">> \o Separated([k \in 1..n |-> ToString(k)], ",") \o <<")">>

ArityLexemes(x) ==
    CASE x.form = "literal" -> ArityFunction(x.p) \o ArityArguments(x.n) \o <<";">>
      [] x.form = "let" ->
            <<"let", "f", "=">> \o ArityFunction(x.p) \o <<";", "f">>
            \o ArityArguments(x.n) \o <<";">>
      [] x.form = "inner" ->
            <<"let", "f", "=">> \o ArityFunction(x.p) \o <<";">>
            \o <<"let", "g", "=", "fn", "(", ")", "{", "f">> \o ArityArguments(x.n)
            \o <<";", "}", ";", "g", "(", ")", ";">>

\* token streams: every sequence of at most MaxTokens lexemes of statements,
\* well formed or not
MaxTokens == 4

StreamLexemes == {"let", "return", "x", "=", "5", ";", "+", ")"}

StreamInputs ==
    {[kind |-> "stream", ws |-> w] :
        w \in UNION {[1..n -> StreamLexemes] : n \in 0..MaxTokens}}

\* comparisons of two strings: two literals, two variables, or one variable
\* with itself (then b = a)
StringContents == {"a", "b", ""}

Quoted(v) == "\"" \o v \o "\""

StringInputs ==
    {x \in [kind : {"streq"}, bv : {"v2"}, cc : {FALSE},
            form : {"literals", "variables", "same"}, op : {"==", "!="},
            a : StringContents, b : StringContents] :
        x.form = "same" => x.b = x.a}

StringLexemes(x) ==
    CASE x.form = "literals" -> <<Quoted(x.a), x.op, Quoted(x.b), ";">>
      [] x.form = "variables" ->
            <<"let", "s", "=", Quoted(x.a), ";", "let", "t", "=", Quoted(x.b), ";",
              "s", x.op, "t", ";">>
      [] x.form = "same" -> <<"let", "s", "=", Quoted(x.a), ";", "s", x.op, "s", ";">>

\* hash literals of two pairs {k1: 1, k2: 2} bound to h, and h[probe].  The
\* keys are written 1, 2, 1 + 1 or true; visit and collect are the orders in
\* which the range statements of evalHashLiteral and of Compile happen to
\* yield the two entries of the map node.Pairs
KeyForms == {<<"1">>, <<"2">>, <<"1", "+", "1">>, <<"true">>}

ProbeForms == KeyForms \cup {<<"3">>, <<"false">>}

Orders == {<<1, 2>>, <<2, 1>>}

HashInputs ==
    [kind : {"hash"}, bv : {"v2"}, cc : {FALSE}, k1 : KeyForms, k2 : KeyForms,
     probe : ProbeForms, visit : Orders, collect : Orders]

\* the expression a sequence of lexemes parses to
Expr(ws) == Parse(ws \o <<";">>).program.Statements[1].Expression

\* programs in which an operation yields null and the null is the condition
\* of an if or the operand of !
NullProducers == {"if", "index", "first", "last", "rest"}
NullUses == {"if", "bang"}
NullInputs ==
    [kind : {"null"}, bv : BuiltinVersions, cc : {FALSE},
     producer : NullProducers, use : NullUses]
    \cup [kind : {"null"}, bv : BuiltinVersions, cc : {FALSE},
          producer : {"hash"}, use : NullUses,
          k1 : {<<"1">>}, k2 : {<<"2">>}, probe : {<<"3">>, <<"false">>},
          visit : Orders, collect : Orders]

NullProducer(x) ==
    CASE x.producer = "if" -> <<"if", "(", "false", ")", "{", "1", "}">>
      [] x.producer = "index" -> <<"[", "1", "]", "[", "5", "]">>
      [] x.producer = "hash" -> <<"h", "[">> \o x.probe \o <<"]">>
      [] OTHER -> <<x.producer, "(", "[", "]", ")">>

NullLexemes(x) ==
    IF x.use = "bang" THEN <<"!">> \o NullProducer(x) \o <<";">>
    ELSE <<"if", "(">> \o NullProducer(x) \o <<")", "{", "1", "}", "else", "{", "2", "}", ";">>

\* the input's program has a hash literal
HasHashLiteral(x) == x.kind = "hash" \/ (x.kind = "null" /\ x.producer = "hash")

\* the statement that uses h
HashUse(x) ==
    IF x.kind = "null" THEN NullLexemes(x) ELSE <<"h", "[">> \o x.probe \o <<"]", ";">>

\* the Program of  let h = {k1: 1, k2: 2}; h[probe];  with the pairs in the
\* order they are written
HashProgram(x) ==
    LET p == Parse(<<"let", "h", "=", "0", ";">> \o HashUse(x)).program
        lit == [type |-> "HashLiteral",
                Pairs |-> <<[Key |-> Expr(x.k1), Value |-> Expr(<<"1">>)],
                            [Key |-> Expr(x.k2), Value |-> Expr(<<"2">>)]>>,
                Visit |-> x.visit, Collect |-> x.collect]
    IN  [p EXCEPT !.Statements[1].Value = lit]

\* calls name(first, 1, ...) of a builtin with n arguments; the first argument
\* is an integer, a boolean, the array a or the string s
BuiltinInputs ==
    [kind : {"builtin"}, bv : BuiltinVersions, cc : {FALSE},
     name : {"len", "first", "last", "rest", "push"},
     first : {"1", "true", "a", "s"}, n : 0..MaxArgs]

BuiltinLexemes(x) ==
    <<"let", "a", "=", "[", "1", "]", ";", "let", "s", "=", Quoted("a"), ";", x.name, "(">>
    \o Separated([k \in 1..x.n |-> IF k = 1 THEN x.first ELSE "1"], ",")
    \o <<")", ";">>

\* integer divisions  a / zero  whose right operand evaluates to zero
DivInputs ==
    [kind : {"div"}, bv : {"v2"}, cc : {FALSE}, a : {"0", "1", "2"},
     zero : {<<"0">>, <<"z">>, <<"(", "1", "-", "1", ")">>}]

DivLexemes(x) == <<"let", "z", "=", "0", ";", x.a, "/">> \o x.zero \o <<";">>

\* programs compiled after an earlier compilation
MaxEarlier == 2

PoolTemplates == {"literals", "nested", "newAdder", "oneTwo"}

\* `earlier` is the number of constants the earlier compilation left
PoolInputs ==
    [kind : {"pool"}, bv : {"v2"}, cc : BOOLEAN, tpl : PoolTemplates,
     v1 : 1..MaxValue, v2 : {1}, v3 : {2}, earlier : 0..MaxEarlier]

PoolLexemes(x) ==
    CASE x.tpl = "literals" ->
            <<ToString(x.v1), ";", Quoted("a"), ";", "[", ToString(x.v1), ",", "2", "]", ";">>
      [] x.tpl = "nested" ->
            <<"fn", "(", "a", ")", "{", "fn", "(", "b", ")", "{", "b", "+", ToString(x.v1),
              "}", ";", "3", "}", ";", "4", ";">>
      [] OTHER -> ClosureLexemes(x)

EarlierPool(x) == [k \in 1..x.earlier |-> Integer(10 + k)]

\* functions whose body is empty or ends in a let statement, and calls of them
VoidTemplates == {"empty", "let", "inner", "value", "return", "ifelse", "early"}

VoidInputs ==
    [kind : {"void"}, bv : {"v2"}, cc : BOOLEAN, tpl : VoidTemplates, v1 : 1..MaxValue]

VoidLexemes(x) ==
    CASE x.tpl = "empty" -> <<"let", "f", "=", "fn", "(", ")", "{", "}", ";", "f", "(", ")", ";">>
      [] x.tpl = "let" ->
            <<"let", "f", "=", "fn", "(", "a", ")", "{", "let", "b", "=", "a", ";", "}", ";",
              "f", "(", ToString(x.v1), ")", ";">>
      [] x.tpl = "inner" ->
            <<"let", "f", "=", "fn", "(", "a", ")", "{", "}", ";",
              "let", "g", "=", "fn", "(", ")", "{", "f", "(", ToString(x.v1), ")", ";", "}", ";",
              "g", "(", ")", ";">>
      [] x.tpl = "value" ->
            <<"let", "f", "=", "fn", "(", "a", ")", "{", "a", "}", ";",
              "f", "(", ToString(x.v1), ")", ";">>
      [] x.tpl = "return" ->
            <<"let", "f", "=", "fn", "(", "a", ")", "{", "return", "a", ";", "}", ";",
              "f", "(", ToString(x.v1), ")", ";">>
      [] x.tpl = "ifelse" ->
            <<"let", "f", "=", "fn", "(", "a", ")", "{",
              "if", "(", "a", ">", "1", ")", "{", "7", "}", "else", "{", "8", "}", "}", ";",
              "f", "(", ToString(x.v1), ")", ";">>
      [] x.tpl = "early" ->
            <<"let", "f", "=", "fn", "(", "a", ")", "{",
              "if", "(", "a", ">", "1", ")", "{", "return", "7", ";", "}", ";", "8", "}", ";",
              "f", "(", ToString(x.v1), ")", ";">>

\* what the call of the program yields
VoidExpected(x) ==
    CASE x.tpl \in {"empty", "let", "inner"} -> Null
      [] x.tpl \in {"value", "return"} -> Integer(x.v1)
      [] OTHER -> IF x.v1 > 1 THEN Integer(7) ELSE Integer(8)

\* functions with local bindings that call functions with local bindings
BindingTemplates == {"oneTwo", "sum", "shadow"}

BindingInputs ==
    [kind : {"bind"}, bv : {"v2"}, cc : {TRUE}, tpl : BindingTemplates, v1 : 1..MaxValue]

BindingLexemes(x) ==
    LET v == ToString(x.v1)
    IN  CASE x.tpl = "oneTwo" ->
                <<"let", "one", "=", "fn", "(", ")", "{", "let", "a", "=", v, ";", "a", "}", ";",
                  "let", "two", "=", "fn", "(", ")", "{", "let", "b", "=", "2", ";",
                  "one", "(", ")", "+", "b", "}", ";",
                  "two", "(", ")", ";">>
          [] x.tpl = "sum" ->
                <<"let", "sum", "=", "fn", "(", "a", ",", "b", ")", "{",
                  "let", "c", "=", "a", "+", "b", ";", "c", "}", ";",
                  "let", "outer", "=", "fn", "(", "d", ")", "{", "let", "e", "=", "3", ";",
                  "d", "+", "sum", "(", v, ",", "2", ")", "+", "e", "}", ";",
                  "outer", "(", "4", ")", ";">>
          [] x.tpl = "shadow" ->
                <<"let", "inner", "=", "fn", "(", "a", ")", "{",
                  "let", "b", "=", "a", "+", "a", ";", "let", "a", "=", "b", ";", "a", "}", ";",
                  "let", "outer", "=", "fn", "(", "a", ")", "{", "let", "b", "=", "5", ";",
                  "inner", "(", v, ")", "+", "a", "+", "b", "}", ";",
                  "outer", "(", "1", ")", ";">>

\* the value the program yields
BindingExpected(x) ==
    CASE x.tpl = "oneTwo" -> x.v1 + 2
      [] x.tpl = "sum" -> 4 + (x.v1 + 2) + 3
      [] x.tpl = "shadow" -> (x.v1 + x.v1) + 1 + 5

\* if-expressions: with and without else, nested in the consequence, in the
\* alternative and in the condition, with empty blocks, among other statements
\* and in a function body
IfShapes ==
    {"if", "ifelse", "nestedCons", "nestedAlt", "nestedCond", "empty", "let", "seq", "inFn"}

IfInputs ==
    [kind : {"ifs"}, bv : {"v2"}, cc : {FALSE}, shape : IfShapes, earlier : {0}]

IfLexemes(x) ==
    CASE x.shape = "if" -> <<"if", "(", "true", ")", "{", "1", "}", ";">>
      [] x.shape = "ifelse" ->
            <<"if", "(", "true", ")", "{", "1", "}", "else", "{", "2", "}", ";">>
      [] x.shape = "nestedCons" ->
            <<"if", "(", "true", ")", "{",
              "if", "(", "false", ")", "{", "1", "}", "else", "{", "2", "}",
              "}", "else", "{", "3", "}", ";">>
      [] x.shape = "nestedAlt" ->
            <<"if", "(", "true", ")", "{", "1", "}", "else", "{",
              "if", "(", "false", ")", "{", "2", "}", "}", ";">>
      [] x.shape = "nestedCond" ->
            <<"if", "(", "if", "(", "true", ")", "{", "false", "}", ")",
              "{", "1", "}", "else", "{", "2", "}", ";">>
      [] x.shape = "empty" ->
            <<"if", "(", "true", ")", "{", "}", "else", "{", "}", ";">>
      [] x.shape = "let" ->
            <<"if", "(", "true", ")", "{", "let", "y", "=", "1", ";", "}", ";">>
      [] x.shape = "seq" ->
            <<"1", ";", "if", "(", "true", ")", "{", "1", ";", "2", "}",
              "else", "{", "3", ";", "4", "}", ";", "5", ";">>
      [] x.shape = "inFn" ->
            <<"fn", "(", "a", ")", "{", "if", "(", "a", ")", "{", "1", "}",
              "else", "{", "2", "}", "}", ";">>

\* function literals that use bindings of the functions around them, and
\* programs whose compilation fails
ScopeTemplates ==
    {"newClosure", "local", "levels", "global", "oneTwo",
     "undefIn", "undefNested", "undefTop", "undefAfter"}

ScopeInputs ==
    [kind : {"scope"}, bv : {"v2"}, cc : BOOLEAN, tpl : ScopeTemplates, earlier : {0}]

ScopeLexemes(x) ==
    CASE x.tpl = "undefIn" -> <<"fn", "(", ")", "{", "x", "}", ";">>
      [] x.tpl = "undefNested" ->
            <<"fn", "(", "a", ")", "{", "fn", "(", ")", "{", "x", "}", "}", ";">>
      [] x.tpl = "undefTop" -> <<"x", ";">>
      [] x.tpl = "undefAfter" -> <<"fn", "(", "a", ")", "{", "a", "}", ";", "x", ";">>
      [] OTHER -> ClosureLexemes([tpl |-> x.tpl, v1 |-> 1, v2 |-> 1, v3 |-> 1])

\* programs that print while they evaluate the operands of an infix operator
\* or the arguments of a call: p prints its argument and returns it
PutsInputs ==
    [kind : {"puts"}, bv : {"v2"}, cc : {FALSE}, form : {"direct", "infix", "args"},
     op : InfixOps, a : {"1", "2"}, b : {"1", "2"}]

PutsLexemes(x) ==
    LET p == <<"let", "p", "=", "fn", "(", "x", ")", "{", "puts", "(", "x", ")", ";",
               "x", "}", ";">>
    IN  CASE x.form = "direct" ->
                <<"puts", "(", x.a, ")", x.op, "puts", "(", x.b, ")", ";">>
          [] x.form = "infix" ->
                p \o <<"p", "(", x.a, ")", x.op, "p", "(", x.b, ")", ";">>
          [] x.form = "args" ->
                p \o <<"let", "f", "=", "fn", "(", "x", ",", "y", ")", "{", "x", x.op,
                       "y", "}", ";",
                       "f", "(", "p", "(", x.a, ")", ",", "p", "(", x.b, ")", ")", ";">>

\* programs in which a parameter or a let of a function body has the name of
\* a binding of an outer environment
ShadowTemplates == {"param", "let", "nested", "again"}

ShadowInputs ==
    [kind : {"shadow"}, bv : {"v2"}, cc : {FALSE}, tpl : ShadowTemplates,
     v1 : 1..MaxValue, v2 : 1..MaxValue]

ShadowLexemes(x) ==
    LET v1 == ToString(x.v1)
        v2 == ToString(x.v2)
    IN  CASE x.tpl = "param" ->
                <<"let", "a", "=", v1, ";",
                  "let", "f", "=", "fn", "(", "a", ")", "{", "a", ";", "}", ";",
                  "f", "(", v2, ")", ";", "a", ";">>
          [] x.tpl = "let" ->
                <<"let", "a", "=", v1, ";",
                  "let", "f", "=", "fn", "(", ")", "{", "let", "a", "=", v2, ";", "a", ";",
                  "}", ";",
                  "f", "(", ")", ";", "a", ";">>
          [] x.tpl = "nested" ->
                <<"let", "a", "=", v1, ";",
                  "let", "f", "=", "fn", "(", "b", ")", "{", "let", "a", "=", "b", ";",
                  "fn", "(", "b", ")", "{", "let", "c", "=", "a", ";", "a", "+", "b", "+",
                  "c", "}", ";", "}", ";",
                  "f", "(", v2, ")", "(", v1, ")", ";", "a", ";">>
          [] x.tpl = "again" ->
                <<"let", "a", "=", v1, ";", "let", "a", "=", v2, ";", "a", ";">>

EvalInputs == RetInputs \cup ErrInputs \cup PushInputs

Source(x) ==
    CASE x.kind = "chain" -> ChainLexemes(x, 1)
      [] x.kind = "ret" -> RetLexemes(x)
      [] x.kind = "err" -> ErrLexemes(x)
      [] x.kind = "push" -> PushLexemes(x)
      [] x.kind = "vm" -> VMLexemes(x)
      [] x.kind = "rec" -> RecLexemes(x)
      [] x.kind = "clo" -> ClosureLexemes(x)
      [] x.kind = "arity" -> ArityLexemes(x)
      [] x.kind = "stream" -> x.ws
      [] x.kind = "streq" -> StringLexemes(x)
      [] x.kind = "builtin" -> BuiltinLexemes(x)
      [] x.kind = "shadow" -> ShadowLexemes(x)
      [] x.kind = "puts" -> PutsLexemes(x)
      [] x.kind = "null" -> NullLexemes(x)
      [] x.kind = "div" -> DivLexemes(x)
      [] x.kind = "pool" -> PoolLexemes(x)
      [] x.kind = "void" -> VoidLexemes(x)
      [] x.kind = "bind" -> BindingLexemes(x)
      [] x.kind = "ifs" -> IfLexemes(x)
      [] x.kind = "scope" -> ScopeLexemes(x)

NoEval == [result |-> None]

NoBytecode == [err |-> "not compiled", done |-> FALSE, Instructions |-> <<>>, Constants |-> <<>>]

NoVM == [status |-> "off"]

ParserInit ==
    /\ phase = "input"
    /\ input \in ChainInputs
    /\ parsed = None
    /\ evalOut = NoEval
    /\ bytecode = NoBytecode
    /\ vm = NoVM

\* parser.New(lexer.New(src)).ParseProgram()
DoParse ==
    /\ phase = "input"
    /\ ~HasHashLiteral(input)
    /\ phase' = "parsed"
    /\ parsed' = Parse(Source(input))
    /\ UNCHANGED <<input, evalOut, bytecode, vm>>

ParserNext == DoParse

ParserSpec == ParserInit /\ [][ParserNext]_vars

(***************************************************************************)
(* Parser driver, step by step: parser.New on the lexer's tokens, then the  *)
(* steps of ParseProgram.  Here parsed holds the parser itself.  A parser   *)
(* that has entered an endless loop (hang) only repeats nextToken on EOF,   *)
(* which changes nothing: it has no further step.                          *)
(***************************************************************************)
TokenInit ==
    /\ phase = "input"
    /\ input \in StreamInputs
    /\ parsed = None
    /\ evalOut = NoEval
    /\ bytecode = NoBytecode
    /\ vm = NoVM

\* parser.New(lexer.New(src))
DoNewParser ==
    /\ phase = "input"
    /\ phase' = "parsing"
    /\ parsed' = New(LexAll(Source(input)))
    /\ UNCHANGED <<input, evalOut, bytecode, vm>>

\* one step of ParseProgram
DoParserStep ==
    /\ phase = "parsing"
    /\ ~ParserDone(parsed)
    /\ parsed' = ParserStep(parsed)
    /\ UNCHANGED <<phase, input, evalOut, bytecode, vm>>

TokenNext == DoNewParser \/ DoParserStep

TokenSpec == TokenInit /\ [][TokenNext]_vars

\* the Go runtime keeps running the goroutine that parses
TokenLiveSpec == TokenSpec /\ WF_vars(TokenNext)

(***************************************************************************)
(* Evaluator driver: parse, then Eval(program, env) on a fresh environment *)
(***************************************************************************)
EvalInit ==
    /\ phase = "input"
    /\ input \in EvalInputs
    /\ parsed = None
    /\ evalOut = NoEval
    /\ bytecode = NoBytecode
    /\ vm = NoVM

\* evaluator.Eval(program, object.NewEnvironment()), once the parser has
\* returned without errors
DoEval ==
    /\ phase = "parsed"
    /\ parsed.errors = <<>> /\ ~parsed.hang
    /\ phase' = "evaluated"
    /\ LET st == EvalRun(NewEvalState(input.bv, parsed.program), EvalFuel)
       IN  evalOut' = [result |-> st.ret, st |-> st]
    /\ UNCHANGED <<input, parsed, bytecode, vm>>

EvalNext == DoParse \/ DoEval

EvalSpec == EvalInit /\ [][EvalNext]_vars

(***************************************************************************)
(* Compiler and VM driver: parse, Eval, then compile the program and run   *)
(* the bytecode on the VM, one iteration of the loop of Run at a time      *)
(***************************************************************************)
VMInit ==
    /\ phase = "input"
    /\ input \in VMInputs \cup RecInputs \cup StringInputs \cup DivInputs
    /\ parsed = None
    /\ evalOut = NoEval
    /\ bytecode = NoBytecode
    /\ vm = NoVM

\* comp := compiler.New(); comp.Compile(program); comp.Bytecode()
DoCompile ==
    /\ phase = "evaluated"
    /\ phase' = "compiled"
    /\ bytecode' = Bytecode(FALSE, parsed.program)
    /\ UNCHANGED <<input, parsed, evalOut, vm>>

\* vm.New(comp.Bytecode()), once Compile has returned nil
DoNewVM ==
    /\ phase = "compiled"
    /\ bytecode.err = ""
    /\ phase' = "running"
    /\ vm' = NewVM(bytecode)
    /\ UNCHANGED <<input, parsed, evalOut, bytecode>>

DoRun ==
    /\ phase = "running"
    /\ ~Stopped(vm)
    /\ vm' = Run(vm)
    /\ UNCHANGED <<phase, input, parsed, evalOut, bytecode>>

VMNext == DoParse \/ DoEval \/ DoCompile \/ DoNewVM \/ DoRun

VMSpec == VMInit /\ [][VMNext]_vars

\* the process that called Run keeps running the loop of Run: an iteration
\* that is possible is not put off for ever
VMLiveSpec == VMSpec /\ WF_vars(DoRun)

(***************************************************************************)
(* Driver of the compiler and the VM with closures and call frames         *)
(***************************************************************************)
ClosureInit ==
    /\ phase = "input"
    /\ input \in ClosureInputs \cup ArityInputs \cup RecInputs \cup VoidInputs
                \cup BindingInputs
    /\ parsed = None
    /\ evalOut = NoEval
    /\ bytecode = NoBytecode
    /\ vm = NoVM

DoCompileClosures ==
    /\ phase = "parsed"
    /\ parsed.errors = <<>> /\ ~parsed.hang
    /\ phase' = "compiled"
    /\ bytecode' = Bytecode(input.cc, parsed.program)
    /\ UNCHANGED <<input, parsed, evalOut, vm>>

DoNewFramesVM ==
    /\ phase = "compiled"
    /\ bytecode.err = ""
    /\ phase' = "running"
    /\ vm' = NewFramesVM(bytecode)
    /\ UNCHANGED <<input, parsed, evalOut, bytecode>>

DoRunFrames ==
    /\ phase = "running"
    /\ ~Stopped(vm)
    /\ vm' = RunFrames(vm)
    /\ UNCHANGED <<phase, input, parsed, evalOut, bytecode>>

ClosureNext == DoParse \/ DoCompileClosures \/ DoNewFramesVM \/ DoRunFrames

ClosureSpec == ClosureInit /\ [][ClosureNext]_vars

(***************************************************************************)
(* Both backends on one program: parse, Eval, then Compile and the VM with *)
(* frames.  A hash literal reaches them as the Program the parser builds   *)
(* for it.                                                                 *)
(***************************************************************************)
(***************************************************************************)
(* The VM on a stack that fills up: the program is the array literal       *)
(*   [1, 1, ..., 1, last]   with `ones` elements 1 before the last one     *)
(***************************************************************************)
MaxOver == 1
MaxLeft == 3

\* `done` is the number of elements 1 whose OpConstant has been executed
StackInputs ==
    {x \in [kind : {"stack"}, ones : (StackSize - 1)..(StackSize - 1 + MaxOver),
            last : {"1", "true", "false", "[]"},
            done : (StackSize - MaxLeft)..StackSize] : x.done <= x.ones}

\* what Compile yields for the array literal: a constant per integer literal
\* in the order of the elements, then OpArray and the statement's OpPop
ArrayBytecode(x) ==
    LET n == x.ones
        ones == [j \in 1..(3 * n) |->
                    Make(OpConstant, <<(j - 1) \div 3>>)[((j - 1) % 3) + 1]]
        last == CASE x.last = "1" -> Make(OpConstant, <<n>>)
                  [] x.last = "true" -> Make(OpTrue, <<>>)
                  [] x.last = "false" -> Make(OpFalse, <<>>)
                  [] x.last = "[]" -> Make(OpArray, <<0>>)
    IN  [err |-> "", done |-> TRUE,
         Instructions |-> ones \o last \o Make(OpArray, <<n + 1>>) \o Make(OpPop, <<>>),
         Constants |-> [k \in 1..(IF x.last = "1" THEN n + 1 ELSE n) |-> Integer(1)]]

\* the VM that Run has taken through the first k instructions of the
\* program, each an OpConstant for an element 1
AfterConstants(x, k) ==
    [NewVM(ArrayBytecode(x)) EXCEPT !.stack = [j \in 1..k |-> Integer(1)],
                                    !.sp = k, !.ip = 3 * k]

StackInit ==
    /\ phase = "running"
    /\ input \in StackInputs
    /\ parsed = None
    /\ evalOut = NoEval
    /\ bytecode = ArrayBytecode(input)
    /\ vm = AfterConstants(input, input.done)

StackNext == DoRun

StackSpec == StackInit /\ [][StackNext]_vars

(***************************************************************************)
(* Encoding and decoding of one instruction: Make, then ReadOperands on    *)
(* the bytes after the opcode                                              *)
(***************************************************************************)
MaxEdge == 1

\* the values of an operand of the given width, near the ends of its range
\* and near the limit of one byte
OperandValues(width) ==
    IF width = 1 THEN (0..MaxEdge) \cup ((255 - MaxEdge)..255)
    ELSE (0..MaxEdge) \cup ((255 - MaxEdge)..(256 + MaxEdge))
         \cup ((65535 - MaxEdge)..65535)

DefinedOpcodes == (OpConstant..OpIndex) \cup (OpCall..OpCurrentClosure)

\* the tuples of operands that fit the widths
OperandTuples(widths) ==
    CASE Len(widths) = 0 -> {<<>>}
      [] Len(widths) = 1 -> {<<a>> : a \in OperandValues(widths[1])}
      [] Len(widths) = 2 ->
            {<<a, b>> : a \in OperandValues(widths[1]), b \in OperandValues(widths[2])}

CodeInputs ==
    UNION {[kind : {"code"}, op : {op}, ops : OperandTuples(Lookup(op).OperandWidths)] :
              op \in DefinedOpcodes}

CodeInit ==
    /\ phase = "input"
    /\ input \in CodeInputs
    /\ parsed = None
    /\ evalOut = NoEval
    /\ bytecode = NoBytecode
    /\ vm = NoVM

\* code.Make(op, ops...)
DoMake ==
    /\ phase = "input"
    /\ phase' = "made"
    /\ bytecode' = [NoBytecode EXCEPT !.err = "", !.Instructions = Make(input.op, input.ops)]
    /\ UNCHANGED <<input, parsed, evalOut, vm>>

\* code.ReadOperands(def, instruction[1:])
DoReadOperands ==
    /\ phase = "made"
    /\ phase' = "read"
    /\ parsed' = ReadOperands(Lookup(input.op), Tail(bytecode.Instructions))
    /\ UNCHANGED <<input, evalOut, bytecode, vm>>

CodeNext == DoMake \/ DoReadOperands

CodeSpec == CodeInit /\ [][CodeNext]_vars

(***************************************************************************)
(* The read-eval-print loop of the compiler and the VM (StartNew).         *)
(* evalOut holds the locals of StartNew that live across iterations: the   *)
(* symbol table (tables), constants and globals, with the number of lines  *)
(* read and what the last iteration printed; parsed, bytecode and vm hold  *)
(* the program, the bytecode and the machine of the iteration under way.   *)
(* The machine shares the globals with the loop: what Run has written is   *)
(* in the loop's globals when Run is left, however it is left.             *)
(***************************************************************************)
\* the lines of one session
MaxLines == 3

ReplLines ==
    {<<"let", "g", "=", "1", ";">>,
     <<"let", "h", "=", "g", ";", "x", ";">>,
     <<"let", "a", "=", "2", ";">>,
     <<"let", "a", "=", "1", "+", "true", ";">>,
     <<"g", ";">>,
     <<"h", ";">>,
     <<"a", ";">>}

\* the symbol table of a session whose earlier lines were `let g = 1;` and
\* then, defined - 1 times, `let h = g; x;`, which defines h anew and does
\* not compile
EarlierTables(defined) ==
    LET t == DefineBuiltins(<<NewSymbolTable>>, 1)
    IN  IF defined = 0 THEN t
        ELSE [t EXCEPT ![1].store =
                          @ \o <<Symbol("g", GlobalScope, 0)>>
                            \o (IF defined > 1
                                THEN <<Symbol("h", GlobalScope, defined - 1)>>
                                ELSE <<>>),
                       ![1].numDefinitions = defined]

\* the locals of StartNew after those lines
EarlierSession(defined) ==
    [tables |-> EarlierTables(defined),
     constants |-> IF defined = 0 THEN <<>> ELSE <<Integer(1)>>,
     globals |-> IF defined = 0 THEN <<>> ELSE <<Integer(1)>>,
     lines |-> 0, out |-> ""]

NewWithGlobalsStore(bc, globals) == [NewVM(bc) EXCEPT !.globals = globals]

ReplInit ==
    /\ phase = "prompt"
    /\ input \in [kind : {"repl"}, defined : {0}]
    /\ parsed = None
    /\ evalOut = EarlierSession(input.defined)
    /\ bytecode = NoBytecode
    /\ vm = NoVM

\* a session that has defined almost as many globals as the globals array
\* has slots
EdgeInit ==
    /\ phase = "prompt"
    /\ input \in [kind : {"repl"}, defined : (GlobalsSize - MaxEdge)..GlobalsSize]
    /\ parsed = None
    /\ evalOut = EarlierSession(input.defined)
    /\ bytecode = NoBytecode
    /\ vm = NoVM

\* the iteration from the compiled program on: p is the program parsed and c
\* the compiler after Compile
Compiled(p, c) ==
    LET code == [err |-> c.err, done |-> CompilerDone(c),
                 Instructions |-> currentInstructions(c),
                 Constants |-> c.constants]
    IN  /\ parsed' = p
        /\ IF p.errors # <<>> \/ p.hang
           THEN /\ phase' = "prompt"
                /\ evalOut' = [evalOut EXCEPT !.lines = @ + 1,
                                              !.out = "parser errors"]
                /\ UNCHANGED <<bytecode, vm>>
           ELSE IF c.err # ""
           THEN /\ phase' = "prompt"
                /\ evalOut' = [evalOut EXCEPT !.lines = @ + 1,
                                              !.tables = c.tables,
                                              !.out = "Compiler error: " \o c.err]
                /\ bytecode' = code
                /\ UNCHANGED vm
           ELSE /\ phase' = "running"
                /\ evalOut' = [evalOut EXCEPT !.lines = @ + 1,
                                              !.tables = c.tables,
                                              !.constants = c.constants,
                                              !.out = ""]
                /\ bytecode' = code
                /\ vm' = NewWithGlobalsStore(code, evalOut.globals)

\* the iteration from the parsed program on: the compiler works with the
\* symbol table and the constants of the session
Parsed(p) ==
    Compiled(p, CompilerRun(NewWithState(FALSE, p.program, evalOut.tables,
                                         evalOut.constants), CompileFuel))

\* one iteration of the loop up to machine.Run(): the line is read, parsed
\* and compiled
DoReadLine ==
    /\ phase = "prompt"
    /\ evalOut.lines < MaxLines
    /\ \E line \in ReplLines : Parsed(Parse(line))
    /\ UNCHANGED input

\* the rest of the iteration, once Run is left: a panic ends the process, an
\* error is printed, and else the last popped element is printed with
\* Inspect, which panics on the nil interface
DoPrint ==
    /\ phase = "running"
    /\ Stopped(vm)
    /\ LET top == LastPoppedStackElem(vm)
       IN  /\ evalOut' = [evalOut EXCEPT
                            !.globals = vm.globals,
                            !.out = IF vm.status = "panic" THEN "panic: " \o vm.err
                                    ELSE IF vm.status = "error"
                                    THEN "VM error: " \o vm.err
                                    ELSE IF isNil(top)
                                    THEN "panic: nil pointer dereference"
                                    ELSE Inspect(<<>>, top)]
           /\ phase' = IF vm.status = "panic" \/ (vm.status = "done" /\ isNil(top))
                       THEN "crashed" ELSE "prompt"
    /\ UNCHANGED <<input, parsed, bytecode, vm>>

ReplNext == DoReadLine \/ DoRun \/ DoPrint

ReplSpec == ReplInit /\ [][ReplNext]_vars

EdgeSpec == EdgeInit /\ [][ReplNext]_vars

(***************************************************************************)
(* Recursion without bound.  A run is taken up at the entry of a call deep *)
(* in the recursion: every level of it has the frame and the stack slots   *)
(* of the second call, moved up by what one level takes.                   *)
(***************************************************************************)
DeepTemplates == {"noArgs", "oneArg", "locals", "moreLocals"}

DeepLexemes(tpl) ==
    CASE tpl = "noArgs" ->
            <<"let", "f", "=", "fn", "(", ")", "{", "f", "(", ")", ";", "}", ";",
              "f", "(", ")", ";">>
      [] tpl = "oneArg" ->
            <<"let", "f", "=", "fn", "(", "x", ")", "{", "f", "(", "x", ")", ";", "}", ";",
              "f", "(", "1", ")", ";">>
      [] tpl = "locals" ->
            <<"let", "f", "=", "fn", "(", "x", ")", "{",
              "let", "a", "=", "x", ";", "let", "b", "=", "a", ";",
              "f", "(", "b", ")", ";", "}", ";",
              "f", "(", "1", ")", ";">>
      [] tpl = "moreLocals" ->
            <<"let", "f", "=", "fn", "(", "x", ")", "{",
              "let", "a", "=", "x", ";", "let", "b", "=", "a", ";",
              "let", "c", "=", "b", ";",
              "f", "(", "c", ")", ";", "}", ";",
              "f", "(", "1", ")", ";">>

DeepBytecode(tpl) == Bytecode(TRUE, Parse(DeepLexemes(tpl)).program)

\* Run up to the entry of the call that makes the d-th frame
RECURSIVE RunToDepth(_, _, _)
RunToDepth(m, d, fuel) ==
    IF Stopped(m) \/ Len(m.frames) = d \/ fuel = 0 THEN m
    ELSE RunToDepth(RunFrames(m), d, fuel - 1)

\* the stack slots that one level of the recursion takes
Growth(m) == m.frames[3].basePointer - m.frames[2].basePointer

\* the machine at the entry of the call that makes the d-th frame (d >= 3),
\* without the history of the calls; s is the machine at the entry of the
\* call that makes the third frame
AtDepth(s, d) ==
    LET g == Growth(s)
        b2 == s.frames[2].basePointer
    IN  [s EXCEPT
            !.frames = <<s.frames[1]>>
                \o [j \in 1..(d - 3) |->
                        [s.frames[2] EXCEPT !.basePointer = @ + (j - 1) * g,
                                            !.fid = @ + (j - 1)]]
                \o <<[s.frames[2] EXCEPT !.basePointer = @ + (d - 3) * g,
                                         !.fid = @ + (d - 3)],
                     [s.frames[3] EXCEPT !.basePointer = @ + (d - 3) * g,
                                         !.fid = @ + (d - 3)]>>,
            !.stack = [j \in 1..(Len(s.stack) + (d - 3) * g) |->
                          IF j <= b2 THEN s.stack[j]
                          ELSE IF j <= b2 + (d - 3) * g
                          THEN s.stack[b2 + 1 + ((j - 1 - b2) % g)]
                          ELSE s.stack[j - (d - 3) * g]],
            !.sp = @ + (d - 3) * g,
            !.nfid = @ + (d - 3),
            !.log = <<>>]

\* the depth at which the frames or the stack are used up
StopDepth(s) ==
    LET byStack == 3 + ((StackSize - s.sp) \div Growth(s))
    IN  IF byStack < MaxFrames THEN byStack ELSE MaxFrames

\* the machine `left` calls before that depth
BeforeStop(s, left) == AtDepth(s, StopDepth(s) - left)

DeepInputs == [kind : {"deep"}, tpl : DeepTemplates, left : 1..MaxLeft]

DeepInit ==
    /\ phase = "running"
    /\ input \in DeepInputs
    /\ parsed = None
    /\ evalOut = NoEval
    /\ bytecode = DeepBytecode(input.tpl)
    /\ vm = BeforeStop(RunToDepth(NewFramesVM(bytecode), 3, 64), input.left)

DeepNext == DoRunFrames

DeepSpec == DeepInit /\ [][DeepNext]_vars

(***************************************************************************)
(* The disassembler (Instructions.String).  parsed holds the locals of the *)
(* loop: i, the lines written to out, and whether the loop is running, has *)
(* returned (done) or was left by a panic.  A line keeps the offset and    *)
(* the instruction it prints, and at, the value of i it was printed for.   *)
(***************************************************************************)
MaxChunks == 3

\* the lines after which a loop that still runs is not followed further
MaxOut == 4

\* whole instructions, the byte 255, which has no row in definitions, and an
\* opcode whose operand is whatever follows
Chunks ==
    {Make(OpAdd, <<>>), Make(OpConstant, <<2>>), Make(OpGetGlobal, <<65535>>),
     <<255>>, <<OpJump>>}

WholeChunks == {Make(OpAdd, <<>>), Make(OpConstant, <<2>>), Make(OpGetGlobal, <<65535>>)}

RECURSIVE Flatten(_)
Flatten(chunks) == IF chunks = <<>> THEN <<>> ELSE Head(chunks) \o Flatten(Tail(chunks))

DisasmInputs ==
    {[kind |-> "bytes", chunks |-> cs] :
        cs \in UNION {[1..n -> Chunks] : n \in 1..MaxChunks}}

\* one iteration of the loop of String, or its end
InstructionsString(ins, s) ==
    IF s.i >= Len(ins) THEN [s EXCEPT !.status = "done"]
    ELSE
    LET op == ByteAt(ins, s.i)
        def == Lookup(op)
        \* the bytes the operands of def take
        width == ReadOperands(def, <<0, 0, 0>>).offset
    IN  IF ~def.ok
        THEN [s EXCEPT !.out = Append(@, [error |-> TRUE, at |-> s.i, offset |-> 0,
                                          op |-> op, operands |-> <<>>])]
        ELSE IF s.i + 1 + width > Len(ins)
        THEN [s EXCEPT !.status = "panic"]
        ELSE
        LET r == ReadOperands(def, SubSeq(ins, s.i + 2, Len(ins)))
        IN  [s EXCEPT !.out = Append(@, [error |-> FALSE, at |-> s.i, offset |-> s.i,
                                         op |-> op, operands |-> r.operands]),
                      !.i = s.i + 1 + r.offset]

DisasmInit ==
    /\ phase = "printing"
    /\ input \in DisasmInputs
    /\ parsed = [i |-> 0, out |-> <<>>, status |-> "running"]
    /\ evalOut = NoEval
    /\ bytecode = [NoBytecode EXCEPT !.err = "", !.Instructions = Flatten(input.chunks)]
    /\ vm = NoVM

\* ins.String(), an iteration at a time
DoString ==
    /\ phase = "printing"
    /\ parsed.status = "running"
    /\ Len(parsed.out) < MaxOut
    /\ parsed' = InstructionsString(bytecode.Instructions, parsed)
    /\ UNCHANGED <<phase, input, evalOut, bytecode, vm>>

DisasmNext == DoString

DisasmSpec == DisasmInit /\ [][DisasmNext]_vars

\* the process that called String keeps running its loop
DisasmLiveSpec == DisasmSpec /\ WF_vars(DoString)

(***************************************************************************)
(* The symbol table on its own: the calls a compiler makes on its current  *)
(* table, in any order.  bytecode holds the chain of tables from the       *)
(* global one to the current one (table k+1 encloses table k), the number  *)
(* of calls made and, for each table, the number of calls of Define on it; *)
(* parsed holds the last call and what it returned.                        *)
(***************************************************************************)
\* the calls of one behaviour
MaxCalls == 6

SymbolNames == {"a", "b"}

BuiltinSymbolNames == {"len"}

\* repeat: the call before was the same call of Resolve on the same table
NoCall ==
    [op |-> "", name |-> "", symbol |-> Symbol("", "", 0), ok |-> FALSE, repeat |-> FALSE]

SymbolInit ==
    /\ phase = "symbols"
    /\ input \in [kind : {"symbols"}]
    /\ parsed = NoCall
    /\ evalOut = NoEval
    /\ bytecode = [tables |-> <<NewSymbolTable>>, calls |-> 0, defines |-> <<0>>]
    /\ vm = NoVM

\* c.symbolTable = NewEnclosedSymbolTable(c.symbolTable)
DoEnclose ==
    /\ phase = "symbols"
    /\ bytecode.calls < MaxCalls
    /\ bytecode' = [tables |-> Append(bytecode.tables,
                                      NewEnclosedSymbolTable(Len(bytecode.tables))),
                    calls |-> bytecode.calls + 1,
                    defines |-> Append(bytecode.defines, 0)]
    /\ parsed' = [NoCall EXCEPT !.op = "NewEnclosedSymbolTable"]
    /\ UNCHANGED <<phase, input, evalOut, vm>>

\* c.symbolTable = c.symbolTable.Outer
DoLeave ==
    /\ phase = "symbols"
    /\ bytecode.calls < MaxCalls
    /\ Len(bytecode.tables) > 1
    /\ bytecode' = [tables |-> SubSeq(bytecode.tables, 1, Len(bytecode.tables) - 1),
                    calls |-> bytecode.calls + 1,
                    defines |-> SubSeq(bytecode.defines, 1, Len(bytecode.defines) - 1)]
    /\ parsed' = [NoCall EXCEPT !.op = "Outer"]
    /\ UNCHANGED <<phase, input, evalOut, vm>>

\* c.symbolTable.Define(name)
DoDefine ==
    /\ phase = "symbols"
    /\ bytecode.calls < MaxCalls
    /\ \E name \in SymbolNames :
          LET t == Len(bytecode.tables)
              d == Define(bytecode.tables, t, name)
          IN  /\ bytecode' = [tables |-> d.tables, calls |-> bytecode.calls + 1,
                              defines |-> [bytecode.defines EXCEPT ![t] = @ + 1]]
              /\ parsed' = [NoCall EXCEPT !.op = "Define", !.name = name, !.symbol = d.symbol,
                                      !.ok = TRUE]
    /\ UNCHANGED <<phase, input, evalOut, vm>>

\* c.symbolTable.DefineBuiltin(0, name)
DoDefineBuiltin ==
    /\ phase = "symbols"
    /\ bytecode.calls < MaxCalls
    /\ \E name \in BuiltinSymbolNames :
          LET d == DefineBuiltin(bytecode.tables, Len(bytecode.tables), 0, name)
          IN  /\ bytecode' = [bytecode EXCEPT !.tables = d.tables, !.calls = @ + 1]
              /\ parsed' = [NoCall EXCEPT !.op = "DefineBuiltin", !.name = name,
                                      !.symbol = d.symbol, !.ok = TRUE]
    /\ UNCHANGED <<phase, input, evalOut, vm>>

\* c.symbolTable.DefineFunctionName(name)
DoDefineFunctionName ==
    /\ phase = "symbols"
    /\ bytecode.calls < MaxCalls
    /\ \E name \in SymbolNames :
          LET d == DefineFunctionName(bytecode.tables, Len(bytecode.tables), name)
          IN  /\ bytecode' = [bytecode EXCEPT !.tables = d.tables, !.calls = @ + 1]
              /\ parsed' = [NoCall EXCEPT !.op = "DefineFunctionName", !.name = name,
                                      !.symbol = d.symbol, !.ok = TRUE]
    /\ UNCHANGED <<phase, input, evalOut, vm>>

\* c.symbolTable.Resolve(name)
DoResolve ==
    /\ phase = "symbols"
    /\ bytecode.calls < MaxCalls
    /\ \E name \in SymbolNames \cup BuiltinSymbolNames :
          LET r == Resolve(bytecode.tables, Len(bytecode.tables), name)
          IN  /\ bytecode' = [bytecode EXCEPT !.tables = r.tables, !.calls = @ + 1]
              /\ parsed' = [op |-> "Resolve", name |-> name, symbol |-> r.symbol,
                            ok |-> r.ok,
                            repeat |-> parsed.op = "Resolve" /\ parsed.name = name]
    /\ UNCHANGED <<phase, input, evalOut, vm>>

SymbolNext ==
    DoEnclose \/ DoLeave \/ DoDefine \/ DoDefineBuiltin \/ DoDefineFunctionName \/ DoResolve

SymbolSpec == SymbolInit /\ [][SymbolNext]_vars

(***************************************************************************)
(* Compilation step by step, from the state of an earlier compilation      *)
(***************************************************************************)
PoolInit ==
    /\ phase = "input"
    /\ input \in PoolInputs \cup IfInputs \cup ScopeInputs
    /\ parsed = None
    /\ evalOut = NoEval
    /\ bytecode = NoBytecode
    /\ vm = NoVM

\* compiler.NewWithState(symbolTable, constants) on the parsed program
DoNewWithState ==
    /\ phase = "parsed"
    /\ parsed.errors = <<>> /\ ~parsed.hang
    /\ phase' = "compiling"
    /\ bytecode' = NewWithState(input.cc, parsed.program,
                                DefineBuiltins(<<NewSymbolTable>>, 1), EarlierPool(input))
    /\ UNCHANGED <<input, parsed, evalOut, vm>>

\* one step of Compile
DoCompilerStep ==
    /\ phase = "compiling"
    /\ ~CompilerDone(bytecode)
    /\ bytecode' = CompilerStep(bytecode)
    /\ UNCHANGED <<phase, input, parsed, evalOut, vm>>

PoolNext == DoParse \/ DoNewWithState \/ DoCompilerStep

PoolSpec == PoolInit /\ [][PoolNext]_vars

BackendInit ==
    /\ phase = "input"
    /\ input \in HashInputs \cup BuiltinInputs \cup NullInputs
    /\ parsed = None
    /\ evalOut = NoEval
    /\ bytecode = NoBytecode
    /\ vm = NoVM

\* ParseProgram on a program with a hash literal
DoParseHash ==
    /\ phase = "input"
    /\ HasHashLiteral(input)
    /\ phase' = "parsed"
    /\ parsed' = [program |-> HashProgram(input), errors |-> <<>>, hang |-> FALSE]
    /\ UNCHANGED <<input, evalOut, bytecode, vm>>

BackendNext ==
    DoParse \/ DoParseHash \/ DoEval \/ DoCompile \/ DoNewFramesVM \/ DoRunFrames

BackendSpec == BackendInit /\ [][BackendNext]_vars

\* the evaluator on the calls with any number of arguments
ArityEvalInit ==
    /\ phase = "input"
    /\ input \in ArityInputs
    /\ parsed = None
    /\ evalOut = NoEval
    /\ bytecode = NoBytecode
    /\ vm = NoVM

ArityEvalSpec == ArityEvalInit /\ [][EvalNext]_vars

\* the evaluator a step at a time: evalOut.st is the state of the call
\* Eval(program, env) under way
EnvInit ==
    /\ phase = "input"
    /\ input \in ShadowInputs
    /\ parsed = None
    /\ evalOut = NoEval
    /\ bytecode = NoBytecode
    /\ vm = NoVM

\* env := object.NewEnvironment(), and the call of Eval(program, env)
DoNewEnvironment ==
    /\ phase = "parsed"
    /\ parsed.errors = <<>> /\ ~parsed.hang
    /\ phase' = "evaluating"
    /\ evalOut' = [result |-> Nil, st |-> NewEvalState(input.bv, parsed.program)]
    /\ UNCHANGED <<input, parsed, bytecode, vm>>

DoEvalStep ==
    /\ phase = "evaluating"
    /\ ~EvalDone(evalOut.st)
    /\ LET st == EvalStep(evalOut.st)
       IN  evalOut' = [result |-> IF EvalDone(st) THEN st.ret ELSE Nil, st |-> st]
    /\ UNCHANGED <<phase, input, parsed, bytecode, vm>>

EnvNext == DoParse \/ DoNewEnvironment \/ DoEvalStep

EnvSpec == EnvInit /\ [][EnvNext]_vars

\* both backends on the programs that print
OrderInit ==
    /\ phase = "input"
    /\ input \in PutsInputs
    /\ parsed = None
    /\ evalOut = NoEval
    /\ bytecode = NoBytecode
    /\ vm = NoVM

OrderNext == DoParse \/ DoEval \/ DoCompile \/ DoNewFramesVM \/ DoRunFrames

OrderSpec == OrderInit /\ [][OrderNext]_vars

\* ---- the canonical form of an operator chain, from the precedence table ----
TableLevel(op) ==
    CASE op \in {"==", "!="} -> "EQUALS"
      [] op \in {"<", ">"} -> "LESSGREATER"
      [] op \in {"+", "-"} -> "SUM"
      [] op \in {"*", "/"} -> "PRODUCT"

LevelOrder == <<"EQUALS", "LESSGREATER", "SUM", "PRODUCT">>

Looser(l1, l2) ==
    \E i, j \in 1..Len(LevelOrder) : LevelOrder[i] = l1 /\ LevelOrder[j] = l2 /\ i < j

\* the canonical text of operand i: prefix operators bind tighter than any
\* binary operator, call and index bind tighter than a prefix operator
CanonOperand(x, i) ==
    LET n == OperandNames[i]
    IN  IF x.at # i \/ x.dec = "none" THEN n
        ELSE CASE x.dec = "neg" -> "(-" \o n \o ")"
               [] x.dec = "bang" -> "(!" \o n \o ")"
               [] x.dec = "bangneg" -> "(!(-" \o n \o "))"
               [] x.dec = "group" ->
                    "(" \o n \o " " \o x.ops[i] \o " " \o OperandNames[i + 1] \o ")"
               [] x.dec = "index" -> "(" \o n \o "[(1 * 2)])"
               [] x.dec = "call" -> n \o "((1 + 2), 3)"
               [] x.dec = "negindex" -> "(-(" \o n \o "[1]))"
               [] x.dec = "negcall" -> "(-" \o n \o "())"

\* operator positions of x between operands lo and hi that are not inside a group
TopOps(x, lo, hi) == {k \in lo..(hi - 1) : ~InGroup(x, k)}

\* the operator applied last: the rightmost one of the loosest level
RootOp(x, lo, hi) ==
    CHOOSE k \in TopOps(x, lo, hi) :
        \A j \in TopOps(x, lo, hi) :
            /\ ~Looser(TableLevel(x.ops[j]), TableLevel(x.ops[k]))
            /\ (TableLevel(x.ops[j]) = TableLevel(x.ops[k]) => j <= k)

RECURSIVE Canonical(_, _, _)
Canonical(x, lo, hi) ==
    IF TopOps(x, lo, hi) = {} THEN CanonOperand(x, lo)
    ELSE LET k == RootOp(x, lo, hi)
         IN  "(" \o Canonical(x, lo, k) \o " " \o x.ops[k] \o " "
                 \o Canonical(x, k + 1, hi) \o ")"

\* C9: an operator chain that parses without errors prints as its fully
\* parenthesised canonical form, in which an operator of a higher level of the
\* table binds tighter than one of a lower level
C9_CanonicalForm ==
    (phase = "parsed" /\ input.kind = "chain" /\ parsed.errors = <<>>)
        => String(parsed.program) = Canonical(input, 1, Len(input.ops) + 1)

C9_Witness ==
    /\ phase = "parsed" /\ parsed.errors = <<>>
    /\ input.kind = "chain" /\ input.dec = "none"
    /\ input.ops = <<"+", "*", "-">>
    /\ String(parsed.program) = "((a + (b * c)) - d)"

\* C10: two binary operators of the same level associate to the left
C10_LeftAssociative ==
    (/\ phase = "parsed" /\ input.kind = "chain" /\ input.dec = "none"
     /\ Len(input.ops) = 2
     /\ TableLevel(input.ops[1]) = TableLevel(input.ops[2]))
        => String(parsed.program)
             = "((a " \o input.ops[1] \o " b) " \o input.ops[2] \o " c)"

C10_Witness ==
    /\ phase = "parsed" /\ input.kind = "chain" /\ input.dec = "none"
    /\ input.ops = <<"-", "+">>
    /\ String(parsed.program) = "((a - b) + c)"

\* object.Builtins "push", the table the VM resolves OpGetBuiltin against
Builtins_push(args, st) ==
    IF Len(args) # 2 THEN V(wrongNumberOfArguments(Len(args), 2), st)
    ELSE IF args[1].kind = "ARRAY"
    THEN NewArray(st, Append(Elements(st, args[1]), args[2]))
    ELSE mustBeArray("push", args[1], st)

\* ---- what the evaluation history shows ----
EvalLog == evalOut.st.log

StatementTypes == {"LetStatement", "ReturnStatement", "ExpressionStatement"}

\* the events of the history at which a return statement built its wrapper
Returns == {k \in DOMAIN EvalLog : EvalLog[k].ev = "return"}

\* the value activation a yielded: the program's result, or the call's
Yielded(a) ==
    IF a = 0 THEN {evalOut.result}
    ELSE {EvalLog[k].val : k \in {j \in DOMAIN EvalLog :
                                     EvalLog[j].ev = "exit" /\ EvalLog[j].act = a}}

\* C5: once a return statement is evaluated inside nested if-blocks, no later
\* statement of the same function body (or of the program) is evaluated and the
\* call (or the program) yields the returned value; the statements of the caller
\* that follow the call are still evaluated, so the program ends with its last one
C5_ReturnEndsItsBody ==
    phase = "evaluated" =>
        /\ \A k \in Returns :
              /\ \A j \in DOMAIN EvalLog :
                    (j > k /\ EvalLog[j].ev = "eval" /\ EvalLog[j].what \in StatementTypes)
                        => EvalLog[j].act # EvalLog[k].act
              /\ Yielded(EvalLog[k].act) = {EvalLog[k].val}
        /\ (input.kind = "ret" /\ input.where = "function" /\ input.taken
            /\ ~Aborts(evalOut.result))
                => evalOut.result = Integer(7)

\* C6: a ReturnValue is never the result of a program or of a call, is never
\* stored in an environment, and is never an operand or an argument
C6_ReturnWrapperNeverObservable ==
    phase = "evaluated" =>
        /\ evalOut.result.kind # "RETURN_VALUE"
        /\ \A k \in DOMAIN EvalLog :
              /\ EvalLog[k].ev \in {"exit", "set", "operands", "call"}
                    => \A j \in DOMAIN EvalLog[k].kinds :
                            EvalLog[k].kinds[j] # "RETURN_VALUE"

\* the position in the history of the first ERROR object
FirstError == CHOOSE k \in DOMAIN EvalLog : EvalLog[k].ev = "error"

\* C7: the first ERROR becomes the result of the program; after it nothing is
\* evaluated, no operator or function is applied and no binding is made
C7_FirstErrorEndsProgram ==
    (phase = "evaluated" /\ HasEvent(evalOut.st, "error")) =>
        /\ evalOut.result = Error(EvalLog[FirstError].what)
        /\ \A j \in DOMAIN EvalLog :
              j > FirstError => EvalLog[j].ev \notin {"eval", "set", "operands", "call"}

\* an error in the first argument of a call inside a function body: the second
\* argument, the rest of the body and of the program are skipped
C7_Witness ==
    /\ phase = "evaluated"
    /\ input.kind = "err" /\ input.e = "mismatch" /\ input.ctx = "arg"
    /\ input.where = "function"
    /\ evalOut.result = Error("type mismatch: INTEGER + BOOLEAN")
    /\ HasEvent(evalOut.st, "error") /\ EvalLog[FirstError].act = 1
    /\ \A j \in DOMAIN EvalLog : EvalLog[j].ev = "call" => EvalLog[j].act = 0

\* C8: push returns a new array of the old elements followed by the new one
\* and leaves its argument alone, in the evaluator and in the VM's table, so
\* that len(a) after any number of pushes is the length a was built with
C8_PushDoesNotMutate ==
    (phase = "evaluated" /\ input.kind = "push") =>
        LET st == evalOut.st
            a == Get(st, GlobalEnv, "a").val
            r == Builtins_push(<<a, Integer(4)>>, st)
        IN  /\ Elements(st, a) = [i \in 1..input.n |-> Integer(i)]
            /\ input.probe = "len" => evalOut.result = Integer(input.n)
            /\ input.probe = "lenOfResult" => evalOut.result = Integer(input.n + 1)
            /\ input.probe = "lastOfResult" => evalOut.result = Integer(7)
            /\ input.probe = "sameArray" => evalOut.result = False
            /\ Elements(r.st, a) = Elements(st, a)
            /\ Elements(r.st, r.val) = Append(Elements(st, a), Integer(4))

\* ---- what the bytecode of a program shows ----
OperandBytes(op) ==
    LET w == Lookup(op).OperandWidths
    IN  IF Len(w) = 0 THEN 0 ELSE IF Len(w) = 1 THEN w[1] ELSE w[1] + w[2]

\* the opcodes of the instructions from offset at on
RECURSIVE OpcodesFrom(_, _)
OpcodesFrom(ins, at) ==
    IF at >= Len(ins) THEN <<>>
    ELSE <<ByteAt(ins, at)>> \o OpcodesFrom(ins, at + 1 + OperandBytes(ByteAt(ins, at)))

HasOpcode(ins, op) ==
    \E k \in DOMAIN OpcodesFrom(ins, 0) : OpcodesFrom(ins, 0)[k] = op

\* C1: a program of integer and boolean literals, prefix and infix operators,
\* if/else, let and identifiers that Eval evaluates without an ERROR compiles,
\* runs on the VM to the end without an error, and LastPoppedStackElem() is
\* then equal to the result of Eval
C1_CompiledCodeAgreesWithEval ==
    (input.kind = "vm" /\ phase \in {"compiled", "running"}
        /\ ~isError(evalOut.result) /\ ~isPanic(evalOut.result)) =>
        /\ bytecode.err = ""
        /\ (phase = "running" /\ Stopped(vm)) =>
              /\ vm.status = "done"
              /\ LastPoppedStackElem(vm) = evalOut.result

\* C3: a function bound by let name = fn(...) {...} that calls itself through
\* name, at top level or inside the body of another function, compiles without
\* an error, and the reference to name in its body is compiled to
\* OpCurrentClosure, the closure that is executing
C3_LetBoundFunctionCallsItself ==
    (input.kind = "rec" /\ phase \in {"compiled", "running"}) =>
        /\ bytecode.err = ""
        /\ \E k \in DOMAIN bytecode.Constants :
              /\ bytecode.Constants[k].kind = "COMPILED_FUNCTION"
              /\ bytecode.Constants[k].NumParameters = 1
              /\ HasOpcode(bytecode.Constants[k].Instructions, OpCurrentClosure)

\* ---- what the history of the VM with call frames shows ----
\* the result of a program of ClosureInputs, from its values
ClosureResult(x) ==
    CASE x.tpl = "newClosure" -> x.v1
      [] x.tpl = "newAdder" -> x.v1 + x.v2 + x.v3
      [] x.tpl = "local" -> x.v1 + x.v2 + x.v3
      [] x.tpl = "levels" -> x.v1 + x.v2 + x.v3 + 8
      [] x.tpl = "global" -> 1 + x.v1 + x.v2 + x.v3
      [] x.tpl = "oneTwo" -> x.v1 - x.v2
      [] x.tpl = "twoCalls" -> (x.v1 + x.v3) - x.v2

Returned == phase = "parsing" /\ parsed.stack = <<>> /\ ~parsed.hang

\* C11: ParseProgram terminates on every finite token stream that ends in
\* EOF, also when the expression of a let or return statement is not
\* followed by a semicolon
C11_ParseProgramTerminates == <>Returned

TokenKinds == {"IDENT", "INT", "=", ";", "(", ")", "{", "}", "EOF"}

IsPrefix(s, t) == Len(s) <= Len(t) /\ SubSeq(t, 1, Len(s)) = s

\* a failed expectPeek(t) in parser ps adds its one message and moves no token
FailedExpectPeek(ps, t) ==
    LET r == expectPeek(ps, t)
    IN  /\ ~r.ok
        /\ r.ps.errors = Append(ps.errors,
              "expected next token to be " \o t \o ", got "
                  \o peekToken(ps).Type \o " instead")
        /\ curToken(r.ps) = curToken(ps)
        /\ peekToken(r.ps) = peekToken(ps)

\* parseExpression starts on a token without a prefix parse function
NoPrefixFn(ps) ==
    /\ ps.stack # <<>>
    /\ Top(ps).fn = "parseExpression" /\ Top(ps).pc = 0
    /\ ~HasPrefixFn(curToken(ps).Type)

\* C12: the error list only grows by appending, a failed expectPeek(t) appends
\* 'expected next token to be <t>, got <peek kind> instead' and leaves
\* curToken and peekToken alone, a token without a prefix parse function
\* appends 'no prefix parse function for <kind> found', and the parser goes
\* on with the following statements until ParseProgram returns a Program
C12_ErrorsAccumulate ==
    [][(phase = "parsing" /\ phase' = "parsing") =>
          /\ IsPrefix(parsed.errors, parsed'.errors)
          /\ \A t \in TokenKinds :
                ~peekTokenIs(parsed, t) => FailedExpectPeek(parsed, t)
          /\ NoPrefixFn(parsed) =>
                parsed'.errors = Append(parsed.errors,
                    "no prefix parse function for " \o curToken(parsed).Type \o " found")
          /\ ~parsed'.hang
          /\ parsed'.stack = <<>> => parsed'.ret.type = "Program"]_vars


(***************************************************************************)
(* Strings                                                                 *)
(***************************************************************************)
\* C13: == on two strings yields true exactly when their contents are equal
\* and != yields the negation, in the tree walker and in the VM, whether the
\* operands are one object or two
C13_StringsCompareByValue ==
    (input.kind = "streq" /\ phase \in {"evaluated", "compiled", "running"}) =>
        LET expected == nativeBoolToBooleanObject((input.a = input.b) = (input.op = "=="))
        IN  /\ evalOut.result = expected
            /\ (phase = "running" /\ Stopped(vm)) =>
                  /\ vm.status = "done"
                  /\ LastPoppedStackElem(vm) = expected


(***************************************************************************)
(* Hash literals                                                           *)
(***************************************************************************)
\* the object a key of the hash inputs evaluates to
KeyObject(k) ==
    CASE k = <<"1">> -> Integer(1)
      [] k \in {<<"2">>, <<"1", "+", "1">>} -> Integer(2)
      [] k = <<"3">> -> Integer(3)
      [] k = <<"true">> -> True
      [] k = <<"false">> -> False

\* both keys of the literal and the probe evaluate to one hash key
DuplicateKey(x) ==
    /\ x.kind = "hash"
    /\ KeyObject(x.k1) = KeyObject(x.k2)
    /\ KeyObject(x.probe) = KeyObject(x.k1)

\* C14: a hash literal with two pairs whose keys evaluate to the same hash
\* key holds the value of the textually later pair, in the tree walker and in
\* the compiler and VM, whatever the order in which the pairs are visited
C14_LaterPairWins ==
    (DuplicateKey(input) /\ phase \in {"evaluated", "compiled", "running"}) =>
        /\ evalOut.result = Integer(2)
        /\ phase # "evaluated" => bytecode.err = ""
        /\ (phase = "running" /\ Stopped(vm)) =>
              /\ vm.status = "done"
              /\ LastPoppedStackElem(vm) = Integer(2)


(***************************************************************************)
(* Builtins in the two backends                                            *)
(***************************************************************************)
\* the call has a wrong number of arguments or a first argument of a kind
\* the builtin does not support
BadCall(x) ==
    /\ x.kind = "builtin"
    /\ \/ x.n # (IF x.name = "push" THEN 2 ELSE 1)
       \/ x.first \in {"1", "true"}
       \/ x.first = "s" /\ x.name # "len"

\* C15: len, first, last, rest and push called with a wrong number of
\* arguments or an unsupported argument yield an ERROR value with the same
\* message in the tree walker and in the VM
C15_SameBuiltinErrors ==
    (BadCall(input) /\ phase \in {"evaluated", "compiled", "running"}) =>
        /\ isError(evalOut.result)
        /\ phase # "evaluated" => bytecode.err = ""
        /\ (phase = "running" /\ Stopped(vm)) =>
              /\ vm.status = "done"
              /\ isError(LastPoppedStackElem(vm))
              /\ LastPoppedStackElem(vm).Message = evalOut.result.Message


(***************************************************************************)
(* The canonical Null                                                      *)
(***************************************************************************)
\* what the program yields when the null it produces is falsy and !null is
\* True
NullExpected(x) == IF x.use = "bang" THEN True ELSE Integer(2)

\* C16: the null of an if without else, of an array index out of range, of
\* a hash miss and of first, last, rest on an empty array is the backend's
\* canonical Null: it is falsy as a condition and ! of it is True
C16_CanonicalNull ==
    (input.kind = "null" /\ phase \in {"evaluated", "compiled", "running"}) =>
        /\ evalOut.result = NullExpected(input)
        /\ phase # "evaluated" => bytecode.err = ""
        /\ (phase = "running" /\ Stopped(vm)) =>
              /\ vm.status = "done"
              /\ LastPoppedStackElem(vm) = NullExpected(input)


(***************************************************************************)
(* The full stack                                                          *)
(***************************************************************************)
\* the instruction at ip pushes without popping first
PushesNext(m) ==
    /\ m.status = "running"
    /\ m.ip < Len(m.instructions)
    /\ LET op == ByteAt(m.instructions, m.ip)
       IN  \/ op \in {OpConstant, OpTrue, OpFalse, OpNull, OpGetGlobal}
           \/ op = OpArray /\ ReadUint16(m.instructions, m.ip + 1) = 0

\* C17: a push onto a full stack (sp = StackSize) makes Run return the error
\* 'stack overflow' and leaves sp and the stack as they were; sp never
\* exceeds StackSize
C17_StackOverflow ==
    /\ [](vm.status # "off" => vm.sp <= StackSize)
    /\ [][(phase = "running" /\ vm.sp = StackSize /\ PushesNext(vm)) =>
              /\ vm'.status = "error"
              /\ vm'.err = "stack overflow"
              /\ vm'.sp = vm.sp
              /\ vm'.stack = vm.stack]_vars

C17_Witness ==
    /\ phase = "running"
    /\ vm.status = "error"
    /\ vm.err = "stack overflow"
    /\ vm.sp = StackSize
    /\ Len(vm.stack) = StackSize


(***************************************************************************)
(* Division by zero                                                        *)
(***************************************************************************)
\* C18: an integer division whose right operand is zero yields an ERROR
\* value in the tree walker and makes Run return an error in the VM; neither
\* backend crashes
C18_DivisionByZeroRejected ==
    (input.kind = "div" /\ phase \in {"evaluated", "compiled", "running"}) =>
        /\ isError(evalOut.result)
        /\ phase # "evaluated" => bytecode.err = ""
        /\ (phase = "running" /\ Stopped(vm)) => vm.status = "error"


(***************************************************************************)
(* Round trip of the operands                                              *)
(***************************************************************************)
RECURSIVE SumOf(_)
SumOf(widths) == IF widths = <<>> THEN 0 ELSE Head(widths) + SumOf(Tail(widths))

AppendedAndEmitted(c, d) ==
    LET last == d.scopes[d.scopeIndex + 1].lastInstruction
    IN  /\ Len(d.constants) = Len(c.constants) + 1
        /\ last.OpCode \in {OpConstant, OpClosure}
        /\ ReadUint16(currentInstructions(d), last.Position + 1) = Len(c.constants)

NextOp(m) ==
    LET fr == currentFrame(m)
    IN  IF fr.ip >= Len(fr.cl.Fn.Instructions) THEN -1
        ELSE ByteAt(fr.cl.Fn.Instructions, fr.ip)

\* the OpCall that made the frame numbered fid, as the log has it
CallOf(m, fid) ==
    CHOOSE e \in {m.log[k] : k \in DOMAIN m.log} : e.ev = "call" /\ e.fid = fid

\* C21: when OpReturnValue or OpReturn of a called closure completes, the
\* number of frames is what it was before the OpCall, sp is the sp before
\* the OpCall minus the number of arguments, and the return value (Null for
\* OpReturn) is in the slot that held the callee
C21_ReturnRestoresStack ==
    [][(/\ phase = "running" /\ vm.status = "running" /\ Len(vm.frames) > 1
        /\ NextOp(vm) \in {OpReturnValue, OpReturn}
        /\ vm'.status = "running") =>
          LET c == CallOf(vm, currentFrame(vm).fid)
          IN  /\ Len(vm'.frames) = c.depth
              /\ vm'.sp = c.sp - c.i
              /\ SlotGet(vm'.stack, c.sp - c.i - 1) =
                    (IF NextOp(vm) = OpReturn THEN Null ELSE SlotGet(vm.stack, vm.sp - 1))]_vars

\* a program has run to its end through a call made inside a called closure
C21_Witness ==
    /\ phase = "running"
    /\ vm.status = "done"
    /\ Len(vm.frames) = 1
    /\ \E k \in DOMAIN vm.log :
          vm.log[k].ev = "call" /\ vm.log[k].depth >= 2 /\ vm.log[k].i >= 1


(***************************************************************************)
(* Locals of a frame                                                       *)
(***************************************************************************)
\* the slots 0 .. b-1 of the stack are the same in m and n
SameBelow(m, n, b) == \A k \in 0..(b - 1) : SlotGet(n.stack, k) = SlotGet(m.stack, k)

\* the one-byte operand of the instruction the current frame is about to execute
NextOperand(m) ==
    ReadUint8(currentFrame(m).cl.Fn.Instructions, currentFrame(m).ip + 1)

Takes(m) ==
    IF m.status # "running" \/ m.ip >= Len(m.instructions) THEN 0
    ELSE LET op == ByteAt(m.instructions, m.ip)
         IN  CASE op \in {OpAdd, OpSub, OpMul, OpDiv, OpEqual, OpNotEqual, OpGreaterThan} -> 2
               [] op \in {OpPop, OpBang, OpMinus, OpJumpNotTruthy, OpSetGlobal} -> 1
               [] op = OpArray -> ReadUint16(m.instructions, m.ip + 1)
               [] OTHER -> 0

\* C23: every expression of a compiled program leaves one value on the stack on
\* every path, also an if-expression whose taken block is empty or ends in a
\* let statement: no instruction takes more values than the stack holds (pop
\* is never executed with sp = 0), sp is never negative, and a program that
\* has run to its end has popped every value it pushed
C23_ExpressionsPushOne ==
    (input.kind = "vm" /\ phase = "running") =>
        /\ vm.sp >= 0
        /\ Takes(vm) <= vm.sp
        /\ vm.status = "done" => vm.sp = 0


(***************************************************************************)
(* The jumps of an if-expression                                           *)
(***************************************************************************)
\* the offsets at which the instructions of ins begin, from offset at on
RECURSIVE StartsFrom(_, _)
StartsFrom(ins, at) ==
    IF at >= Len(ins) THEN {}
    ELSE {at} \cup StartsFrom(ins, at + 1 + OperandBytes(ByteAt(ins, at)))

\* every OpJumpNotTruthy of ins jumps forward to the instruction after an
\* OpJump that lies behind it, every OpJump jumps forward to an instruction
\* or to the end of ins, and that OpJump does not jump back before the target
JumpsPatched(ins) ==
    \A p \in StartsFrom(ins, 0) :
        LET target == ReadUint16(ins, p + 1)
        IN  /\ ByteAt(ins, p) = OpJump =>
                  /\ target > p
                  /\ target \in StartsFrom(ins, 0) \cup {Len(ins)}
            /\ ByteAt(ins, p) = OpJumpNotTruthy =>
                  /\ target > p
                  /\ target <= Len(ins)
                  /\ target - 3 \in StartsFrom(ins, 0)
                  /\ target - 3 > p
                  /\ ByteAt(ins, target - 3) = OpJump
                  /\ ReadUint16(ins, target - 2) > target - 3

\* the instruction sequences of a finished compilation: the program's and
\* those of the compiled functions
CompiledSequences(c) ==
    {currentInstructions(c)}
    \cup {c.constants[k].Instructions :
            k \in {j \in DOMAIN c.constants : c.constants[j].kind = "COMPILED_FUNCTION"}}

\* Compile returns from the if-expression of the frame on top of compiler c
\* and leaves compiler d
IfCompiled(c, d) ==
    /\ c.stack # <<>>
    /\ Top(c).node.type = "IfExpression"
    /\ d.err = ""
    /\ Len(d.stack) = Len(c.stack) - 1

EndsWithReturn(ins) ==
    /\ OpcodesFrom(ins, 0) # <<>>
    /\ OpcodesFrom(ins, 0)[Len(OpcodesFrom(ins, 0))] \in {OpReturnValue, OpReturn}

CallStep(op) ==
    /\ phase = "symbols"
    /\ bytecode'.calls = bytecode.calls + 1
    /\ parsed'.op = op

\* the current table
CurrentTable(b) == Len(b.tables)

\* what a call of Resolve(name) on an enclosed frame that does not hold name
\* did, when the scopes in promoted are the ones that are promoted
ResolvePromotes(promoted) ==
    (CallStep("Resolve")
        /\ CurrentTable(bytecode) > 1
        /\ ~HasSymbol(bytecode.tables[CurrentTable(bytecode)].store, parsed'.name))
       => LET t == CurrentTable(bytecode)
              outer == Resolve(bytecode.tables, t - 1, parsed'.name)
              before == bytecode.tables[t]
              after == bytecode'.tables[t]
          IN  /\ parsed'.ok = outer.ok
              /\ outer.ok =>
                  IF outer.symbol.Scope \in promoted
                  THEN /\ parsed'.symbol =
                              Symbol(parsed'.name, FreeScope, Len(before.FreeSymbols))
                       /\ after.FreeSymbols = Append(before.FreeSymbols, outer.symbol)
                       /\ HasSymbol(after.store, parsed'.name)
                       /\ SymbolAt(after.store, parsed'.name) = parsed'.symbol
                  ELSE /\ parsed'.symbol = outer.symbol
                       /\ after.store = before.store
                       /\ after.FreeSymbols = before.FreeSymbols

\* C27 as stated: Resolve(name) on an enclosed frame that does not hold name
\* promotes the symbol to FREE if and only if the outer resolution returned a
\* LOCAL or FREE symbol; a GLOBAL, BUILTIN or FUNCTION symbol is returned
\* unchanged, and the frame's store and FreeSymbols stay as they were.
C27_PromotesLocalAndFreeOnly == [][ResolvePromotes({LocalScope, FreeScope})]_vars

\* C27 amended: Resolve(name) on an enclosed frame that does not hold name
\* promotes the symbol to FREE if and only if the outer resolution returned a
\* LOCAL, FREE or FUNCTION symbol; a GLOBAL or BUILTIN symbol is returned
\* unchanged, and the frame's store and FreeSymbols stay as they were.
C27_PromotesAllButGlobalAndBuiltin ==
    [][ResolvePromotes({LocalScope, FreeScope, FunctionScope})]_vars

\* the name of the enclosing function was resolved in an inner frame
C27_Witness ==
    /\ phase = "symbols"
    /\ parsed.op = "Resolve" /\ parsed.ok /\ ~parsed.repeat
    /\ parsed.symbol.Scope = FreeScope
    /\ LET st == bytecode.tables[CurrentTable(bytecode)]
       IN  /\ st.Outer # 0
           /\ st.FreeSymbols # <<>>
           /\ st.FreeSymbols[Len(st.FreeSymbols)] = Symbol(parsed.name, FunctionScope, 0)

\* the nearest table below t that holds name, 0 when there is none
RECURSIVE Holder(_, _, _)
Holder(tables, t, name) ==
    IF t = 0 THEN 0
    ELSE IF HasSymbol(tables[t].store, name) THEN t
    ELSE Holder(tables, t - 1, name)

\* C28: Resolve is idempotent per frame: resolving the same name again on
\* the same frame returns the same symbol and lengthens no table's
\* FreeSymbols; the first resolution of a name defined as a local two or more
\* functions up adds exactly one FreeSymbols entry to each frame between the
\* use and the definition.
C28_ResolveIdempotent ==
    [][CallStep("Resolve")
       => LET t == CurrentTable(bytecode)
              name == parsed'.name
              again == Resolve(bytecode'.tables, t, name)
              d == Holder(bytecode.tables, t, name)
          IN  /\ again.ok = parsed'.ok
              /\ again.symbol = parsed'.symbol
              /\ again.tables = bytecode'.tables
              /\ parsed'.repeat
                    => /\ parsed'.symbol = parsed.symbol
                       /\ parsed'.ok = parsed.ok
                       /\ bytecode'.tables = bytecode.tables
              /\ (d > 1 /\ t - d >= 2
                  /\ SymbolAt(bytecode.tables[d].store, name).Scope = LocalScope)
                    => /\ \A k \in (d + 1)..t :
                            /\ Len(bytecode'.tables[k].FreeSymbols)
                                  = Len(bytecode.tables[k].FreeSymbols) + 1
                            /\ bytecode'.tables[k].FreeSymbols
                                    [Len(bytecode'.tables[k].FreeSymbols)].Name = name
                       /\ \A k \in 1..d : bytecode'.tables[k] = bytecode.tables[k]]_vars

\* a local of the second table was resolved twice in a row in the fourth
C28_Witness ==
    /\ phase = "symbols"
    /\ parsed.op = "Resolve" /\ parsed.repeat /\ parsed.ok
    /\ parsed.symbol.Scope = FreeScope
    /\ Len(bytecode.tables) = 4
    /\ HasSymbol(bytecode.tables[2].store, parsed.name)
    /\ SymbolAt(bytecode.tables[2].store, parsed.name).Scope = LocalScope
    /\ \A k \in 3..4 :
          /\ Len(bytecode.tables[k].FreeSymbols) = 1
          /\ bytecode.tables[k].FreeSymbols[1].Name = parsed.name

\* C29: the k-th call of Define on a frame returns index k-1 and
\* numDefinitions is the number of calls of Define on that frame, also when a
\* name is defined again; DefineBuiltin, DefineFunctionName and Resolve leave
\* numDefinitions as it was; the scope returned is GLOBAL iff the frame has no
\* outer, else LOCAL.
C29_DefineCounts ==
    /\ [](phase = "symbols"
          => \A t \in DOMAIN bytecode.tables :
                bytecode.tables[t].numDefinitions = bytecode.defines[t])
    /\ [][/\ CallStep("Define")
             => LET t == CurrentTable(bytecode)
                IN  /\ parsed'.symbol.Index = bytecode'.defines[t] - 1
                    /\ parsed'.symbol.Scope =
                          (IF bytecode.tables[t].Outer = 0 THEN GlobalScope ELSE LocalScope)
                    /\ bytecode'.tables[t].numDefinitions
                          = bytecode.tables[t].numDefinitions + 1
          /\ (CallStep("DefineBuiltin") \/ CallStep("DefineFunctionName")
              \/ CallStep("Resolve"))
             => \A t \in DOMAIN bytecode.tables :
                   bytecode'.tables[t].numDefinitions
                      = bytecode.tables[t].numDefinitions]_vars

\* after a promotion a name was defined a second time in an enclosed frame
C29_Witness ==
    /\ phase = "symbols"
    /\ parsed.op = "Define"
    /\ LET st == bytecode.tables[CurrentTable(bytecode)]
       IN  /\ st.Outer # 0
           /\ st.FreeSymbols # <<>>
           /\ st.numDefinitions = 2
           /\ parsed.symbol = Symbol(parsed.name, LocalScope, 1)
           /\ \A k \in DOMAIN st.store : st.store[k].Name # parsed.name
                                         \/ st.store[k] = parsed.symbol
           /\ Len(st.store) = 2

\* Compile returns from the function literal of the frame on top of compiler
\* c and leaves compiler d
FnCompiled(c, d) ==
    /\ c.stack # <<>>
    /\ Top(c).node.type = "FunctionLiteral"
    /\ Top(c).pc = 1
    /\ d.err = ""
    /\ Len(d.stack) = Len(c.stack) - 1

\* ins holds the instruction op with the one-byte operand
HasInstruction(ins, op, operand) ==
    \E p \in StartsFrom(ins, 0) :
        ByteAt(ins, p) = op /\ ReadUint8(ins, p + 1) = operand

\* the instruction that loads symbol s
LoadOf(s) ==
    CASE s.Scope = LocalScope -> Make(OpGetLocal, <<s.Index>>)
      [] s.Scope = FreeScope -> Make(OpGetFree, <<s.Index>>)
      [] s.Scope = FunctionScope -> Make(OpCurrentClosure, <<>>)
      [] s.Scope = GlobalScope -> Make(OpGetGlobal, <<s.Index>>)
      [] s.Scope = BuiltinScope -> Make(OpGetBuiltin, <<s.Index>>)

RECURSIVE Loads(_, _)
Loads(free, k) ==
    IF k > Len(free) THEN <<>> ELSE LoadOf(free[k]) \o Loads(free, k + 1)

\* C26: when Compile returns from a function literal whose body refers to
\* bindings that are LOCAL or FREE in an enclosing function (its table's
\* FreeSymbols is not empty), the function compiled holds OpGetFree i for each
\* of them, and what was emitted in the enclosing scope is one load per entry
\* of FreeSymbols, in order, and right after them OpClosure for the function
\* with a free count of at least the number of entries.
C26_FreeVariablesCaptured ==
    [][(phase = "compiling" /\ FnCompiled(bytecode, bytecode')
        /\ bytecode.tables[bytecode.symbolTable].FreeSymbols # <<>>)
       => LET free == bytecode.tables[bytecode.symbolTable].FreeSymbols
              outerBefore == bytecode.scopes[bytecode.scopeIndex].instructions
              outerAfter == currentInstructions(bytecode')
              fnIndex == Len(bytecode'.constants) - 1
          IN  /\ bytecode'.constants # <<>>
              /\ bytecode'.constants[fnIndex + 1].kind = "COMPILED_FUNCTION"
              /\ \A i \in 0..(Len(free) - 1) :
                    HasInstruction(bytecode'.constants[fnIndex + 1].Instructions,
                                   OpGetFree, i)
              /\ \E count \in Len(free)..255 :
                    outerAfter = outerBefore \o Loads(free, 1)
                                    \o Make(OpClosure, <<fnIndex, count>>)]_vars

\* the number of tables around table t
RECURSIVE TableDepth(_, _)
TableDepth(tables, t) ==
    IF tables[t].Outer = 0 THEN 0 ELSE 1 + TableDepth(tables, tables[t].Outer)

\* C30: whether the compilation of a node succeeds or returns an error, when
\* Compile has returned the compiler's scopeIndex and the nesting depth of its
\* symbol table are what they were before the call: 0 for the program.
C30_NoScopeLeak ==
    (phase = "compiling" /\ CompilerDone(bytecode) /\ ~bytecode.closures)
        => /\ bytecode.scopeIndex = 0
           /\ Len(bytecode.scopes) = 1
           /\ TableDepth(bytecode.tables, bytecode.symbolTable) = 0

\* a is the beginning of b
IsPrefixOf(a, b) == Len(a) <= Len(b) /\ SubSeq(b, 1, Len(a)) = a

\* C39: in every symbol-table frame, after any sequence of Define,
\* DefineBuiltin, DefineFunctionName and Resolve calls, each FREE symbol of
\* the store has an Index i with 0 <= i < len(FreeSymbols) and FreeSymbols[i]
\* has the symbol's name, no entry of FreeSymbols is a GLOBAL or BUILTIN
\* symbol, and FreeSymbols only grows.
C39_FreeSymbolsConsistent ==
    /\ [](phase = "symbols"
          => \A t \in DOMAIN bytecode.tables :
                LET st == bytecode.tables[t]
                IN  /\ \A k \in DOMAIN st.store :
                          st.store[k].Scope = FreeScope
                             => /\ st.store[k].Index >= 0
                                /\ st.store[k].Index < Len(st.FreeSymbols)
                                /\ st.FreeSymbols[st.store[k].Index + 1].Name
                                      = st.store[k].Name
                    /\ \A i \in DOMAIN st.FreeSymbols :
                          st.FreeSymbols[i].Scope \notin {GlobalScope, BuiltinScope})
    /\ [][phase = "symbols"
          => \A t \in DOMAIN bytecode.tables \cap DOMAIN bytecode'.tables :
                IsPrefixOf(bytecode.tables[t].FreeSymbols,
                           bytecode'.tables[t].FreeSymbols)]_vars

\* the current frame has promoted two names, the second by the last call
C39_Witness ==
    /\ phase = "symbols"
    /\ parsed.op = "Resolve" /\ parsed.ok
    /\ parsed.symbol = Symbol(parsed.name, FreeScope, 1)
    /\ LET st == bytecode.tables[CurrentTable(bytecode)]
       IN  /\ Len(st.FreeSymbols) = 2
           /\ st.FreeSymbols[2].Name = parsed.name
           /\ st.FreeSymbols[1].Name # parsed.name
           /\ \E k \in DOMAIN st.store : st.store[k] = Symbol(st.FreeSymbols[1].Name, FreeScope, 0)

\* the GLOBAL symbols of the session's symbol table
GlobalSymbols(tables) ==
    {tables[1].store[k] : k \in {j \in DOMAIN tables[1].store :
                                    tables[1].store[j].Scope = GlobalScope}}

\* the slot that the instructions compiled for global symbol s address
OperandOf(s) == ReadUint16(Make(OpSetGlobal, <<s.Index>>), 1)

\* C31: every global index that Define assigns and that OpSetGlobal and
\* OpGetGlobal carry in their operand addresses a slot of the globals array,
\* the operand is the index itself (it does not wrap), two global symbols
\* never address the same slot, and no OpSetGlobal or OpGetGlobal that Run
\* executes addresses a slot outside the array.
C31_GlobalIndexInRange ==
    phase \in {"prompt", "running", "crashed"}
        => /\ \A s \in GlobalSymbols(evalOut.tables) :
                 /\ OperandOf(s) = s.Index
                 /\ OperandOf(s) < GlobalsSize
           /\ \A s1, s2 \in GlobalSymbols(evalOut.tables) :
                 s1 # s2 => OperandOf(s1) # OperandOf(s2)
           /\ (phase = "running" /\ ~Stopped(vm) /\ vm.ip < Len(vm.instructions)
               /\ ByteAt(vm.instructions, vm.ip) \in {OpSetGlobal, OpGetGlobal})
                 => ReadUint16(vm.instructions, vm.ip + 1) < GlobalsSize

\* the globals as the session and its machine see them
LiveGlobals == IF phase = "running" THEN vm.globals ELSE evalOut.globals

\* C37: across the iterations of the loop that share symbolTable, constants
\* and globals, after any sequence of lines, also lines that do not compile
\* or fail at run time, every GLOBAL symbol of the shared symbol table has
\* had its slot of globals assigned, so that no later line loads an unset
\* slot; and the slot of a global that was assigned keeps its value as long
\* as the symbol is not defined anew.
C37_GlobalsAssigned ==
    /\ [](phase = "prompt"
          => \A s \in GlobalSymbols(evalOut.tables) :
                ~isNil(SlotGet(evalOut.globals, s.Index)))
    /\ [][(phase \in {"prompt", "running"})
          => \A s \in GlobalSymbols(evalOut.tables) \cap GlobalSymbols(evalOut'.tables) :
                (~isNil(SlotGet(LiveGlobals, s.Index))
                   => (SlotGet(LiveGlobals', s.Index) = SlotGet(LiveGlobals, s.Index)))]_vars

JumpsForward(ins) ==
    \A p \in StartsFrom(ins, 0) :
        (ByteAt(ins, p) \in {OpJump, OpJumpNotTruthy}) => (ReadUint16(ins, p + 1) > p)

RECURSIVE LengthBefore(_, _)
LengthBefore(chunks, k) ==
    IF k = 0 THEN 0 ELSE LengthBefore(chunks, k - 1) + Len(chunks[k])

\* C34: Instructions.String() ends for every byte sequence, also one with a
\* byte that is no defined opcode: every iteration that does not leave the
\* loop moves i forward, no position is printed twice, and the loop is left;
\* for instructions that are well formed the offset of the k-th line is the
\* sum of the lengths of the k-1 instructions before it.
C34_StringTerminates ==
    /\ [](phase = "printing"
          => \A j, k \in DOMAIN parsed.out :
                (j # k) => (parsed.out[j].at # parsed.out[k].at))
    /\ []((phase = "printing" /\ \A k \in DOMAIN input.chunks : input.chunks[k] \in WholeChunks)
          => \A k \in DOMAIN parsed.out :
                /\ ~parsed.out[k].error
                /\ parsed.out[k].offset = LengthBefore(input.chunks, k - 1)
                /\ input.chunks[k] = Make(parsed.out[k].op, parsed.out[k].operands))
    /\ [][(phase = "printing" /\ parsed'.status = "running") => (parsed'.i > parsed.i)]_vars
    /\ [](phase = "printing" => <>(parsed.status # "running"))

\* C35: the lines puts has written when the VM has run the compiled program
\* are the lines the tree walker has written, in the same order, and while
\* the VM runs what it has written is a prefix of them: the operands of an
\* infix operator, of `<` too, and the arguments of a call are evaluated
\* from left to right by both backends.
C35_SameOutput ==
    (input.kind = "puts" /\ phase = "running")
        => /\ IsPrefixOf(vm.out, evalOut.st.out)
           /\ Stopped(vm) => vm.out = evalOut.st.out

\* the names the programs with shadowing bind
ShadowNames == {"a", "b", "c", "f"}

\* environment e and the environments around it, innermost first
RECURSIVE ChainOf(_, _)
ChainOf(st, e) ==
    <<e>> \o (IF st.envs[e].outer = 0 THEN <<>> ELSE ChainOf(st, st.envs[e].outer))

\* the binding of name in the first environment of the chain of e that has one
Innermost(st, e, name) ==
    LET ch == ChainOf(st, e)
        hits == {k \in DOMAIN ch : HasKey(st.envs[ch[k]].store, name)}
    IN  IF hits = {} THEN [ok |-> FALSE, val |-> Nil]
        ELSE LET k == CHOOSE h \in hits : \A g \in hits : h <= g
             IN  [ok |-> TRUE, val |-> At(st.envs[ch[k]].store, name)]

\* a step of the evaluator from st to st2 leaves the environments alone that
\* are not the innermost one of the statement executed
WritesInnermost(st, st2) ==
    /\ Len(st2.envs) >= Len(st.envs)
    /\ \A e \in DOMAIN st.envs :
          (st2.envs[e] # st.envs[e])
             => /\ Top(st).fn = "Eval"
                /\ Top(st).node.type = "LetStatement"
                /\ e = Top(st).env
                /\ st2.envs[e].outer = st.envs[e].outer
                /\ \A name \in ShadowNames :
                      /\ (name # Top(st).node.Name)
                            => (Get(st2, e, name) = Get(st, e, name))
                      /\ (st.envs[e].outer # 0)
                            => (Get(st2, st.envs[e].outer, name)
                                   = Get(st, st.envs[e].outer, name))
    /\ \A e \in DOMAIN st2.envs \ DOMAIN st.envs :
          /\ Top(st).fn = "applyFunction"
          /\ st2.envs[e].outer = Top(st).val.Env
          /\ \A name \in ShadowNames :
                Get(st2, Top(st).val.Env, name) = Get(st, Top(st).val.Env, name)

\* C36: Set writes the innermost environment only: binding the parameters of
\* a call and executing a let in a function body change no environment but
\* the one of the call, so no name changes its value in the environment the
\* function has captured; and Get returns the binding of the innermost
\* environment along the outer chain that binds the name.
C36_SetWritesInnermost ==
    /\ [](phase = "evaluating"
          => \A e \in DOMAIN evalOut.st.envs : \A name \in ShadowNames :
                Get(evalOut.st, e, name) = Innermost(evalOut.st, e, name))
    /\ [][(phase = "evaluating" /\ ~EvalDone(evalOut.st))
          => WritesInnermost(evalOut.st, evalOut'.st)]_vars

\* the program has ended: a call has bound the name a in its environment to
\* another value than the one a has in the global environment
C36_Witness ==
    /\ phase = "evaluating"
    /\ EvalDone(evalOut.st)
    /\ evalOut.result = Integer(input.v1)
    /\ \E e \in DOMAIN evalOut.st.envs :
          /\ evalOut.st.envs[e].outer # 0
          /\ Get(evalOut.st, e, "a").ok
          /\ Get(evalOut.st, e, "a").val = Integer(input.v2)
          /\ Get(evalOut.st, GlobalEnv, "a").val = Integer(input.v1)
          /\ input.v1 # input.v2

\* C38: the tree walker answers the call of a user function with a number of
\* arguments that is not its number of parameters with an ERROR value that
\* carries the VM's message 'wrong number of arguments: want=p, got=n':
\* binding the parameters reads no argument that was not passed (no panic),
\* and a call with surplus arguments does not run the body.
C38_EvalChecksArity ==
    (input.kind = "arity" /\ phase = "evaluated" /\ input.p # input.n)
        => /\ ~isPanic(evalOut.result)
           /\ isError(evalOut.result)
           /\ evalOut.result.Message = "wrong number of arguments: want="
                  \o ToString(input.p) \o ", got=" \o ToString(input.n)

====
